---- MODULE Spec2Model ----
(***************************************************************************)
(* Referral-fee ledger of solana-agent-bot: the fee split (models.py) and  *)
(* the MongoDB service that records swaps, credits referrals, tracks the   *)
(* rolling volume and keeps the payout rows (database.py).                 *)
(*                                                                         *)
(* Money is a Python float in the source.  Here it is a fixed-point        *)
(* integer counted in cents (1/USD of a dollar); every rate of models.py   *)
(* is a ratio of integers, and the volumes are multiples of 100 dollars,   *)
(* for which each product the code forms is a whole number of cents.       *)
(* Float rounding is therefore not part of this model.                     *)
(*                                                                         *)
(* Every `await` of an async method is one atomic step of the store; the   *)
(* event loop may run a step of any other call between two of them.        *)
(***************************************************************************)
EXTENDS Integers, Sequences, FiniteSets, Bags, TLC

\* ------------------------------------------------------------------------
\* Number representation
\* ------------------------------------------------------------------------
\* units per dollar
USD == 100
\* denominator of PLATFORM_FEE (0.005 = 5 / 1000)
Permille == 1000
\* denominator of the three splits (0.20 = 20 / 100)
Percent == 100

\* ------------------------------------------------------------------------
\* models.py: fee configuration
\* ------------------------------------------------------------------------
PLATFORM_FEE == 5
JUPITER_SPLIT == 20
PLATFORM_SPLIT == 55
REFERRER_SPLIT == 25
REFERRAL_CAP == 300 * USD

\* x * (num / den), as the float product x * r with r = num / den
Times(x, num, den) == (x * num) \div den

\* calculate_fee_split with the else branch giving the platform the whole
\* remainder (a plausible "fix" that is not what the code computes)
calculate_fee_split_whole(volume_usd, has_referrer, referrer_capped) ==
    LET gross_fee == Times(volume_usd * USD, PLATFORM_FEE, Permille)
        jupiter_amount == Times(gross_fee, JUPITER_SPLIT, Percent)
        remaining == Times(gross_fee, Percent - JUPITER_SPLIT, Percent)
    IN  IF has_referrer /\ ~referrer_capped
        THEN [gross_fee |-> gross_fee,
              jupiter_amount |-> jupiter_amount,
              platform_amount |-> remaining - Times(remaining, REFERRER_SPLIT, Percent),
              referrer_amount |-> Times(remaining, REFERRER_SPLIT, Percent)]
        ELSE [gross_fee |-> gross_fee,
              jupiter_amount |-> jupiter_amount,
              platform_amount |-> remaining,
              referrer_amount |-> 0]

\* calculate_fee_split that pays the referrer whenever there is one,
\* ignoring referrer_capped
calculate_fee_split_nocap(volume_usd, has_referrer, referrer_capped) ==
    LET gross_fee == Times(volume_usd * USD, PLATFORM_FEE, Permille)
        jupiter_amount == Times(gross_fee, JUPITER_SPLIT, Percent)
        remaining == Times(gross_fee, Percent - JUPITER_SPLIT, Percent)
    IN  IF has_referrer
        THEN [gross_fee |-> gross_fee,
              jupiter_amount |-> jupiter_amount,
              platform_amount |-> Times(remaining, PLATFORM_SPLIT, Percent),
              referrer_amount |-> Times(remaining, REFERRER_SPLIT, Percent)]
        ELSE [gross_fee |-> gross_fee,
              jupiter_amount |-> jupiter_amount,
              platform_amount |-> Times(remaining, PLATFORM_SPLIT + REFERRER_SPLIT, Percent),
              referrer_amount |-> 0]

calculate_fee_split(volume_usd, has_referrer, referrer_capped) ==
    LET gross_fee == Times(volume_usd * USD, PLATFORM_FEE, Permille)
        jupiter_amount == Times(gross_fee, JUPITER_SPLIT, Percent)
        remaining == Times(gross_fee, Percent - JUPITER_SPLIT, Percent)
    IN  IF has_referrer /\ ~referrer_capped
        THEN [gross_fee |-> gross_fee,
              jupiter_amount |-> jupiter_amount,
              platform_amount |-> Times(remaining, PLATFORM_SPLIT, Percent),
              referrer_amount |-> Times(remaining, REFERRER_SPLIT, Percent)]
        ELSE [gross_fee |-> gross_fee,
              jupiter_amount |-> jupiter_amount,
              platform_amount |-> Times(remaining, PLATFORM_SPLIT + REFERRER_SPLIT, Percent),
              referrer_amount |-> 0]


\* ------------------------------------------------------------------------
\* Bounds and input sets
\* ------------------------------------------------------------------------
\* distinct transaction signatures the trade feed delivers
NumSigs == 2
\* days the clock may advance
MaxDay == 1

Users == {"u1", "u2", "u3"}
None == "None"
NoTime == -1
NoSig == 0
WalletOf == [u \in Users |-> CASE u = "u1" -> "w1" [] u = "u2" -> "w2" [] OTHER -> "w3"]
\* the wallet of a trade: the wallet of u2, which is unknown until u2 has
\* signed up and then belongs to a user with or without a referrer
Wallets == {"w2"}
\* the identities that sign up while trades are recorded
SignupUsers == {"u2"}
\* generate_referral_code draws 8 random characters; two users drawing the
\* same code is not modelled, each user has a code of their own
CodeOf == [u \in Users |-> CASE u = "u1" -> "C1" [] u = "u2" -> "C2" [] OTHER -> "C3"]
\* referral_code_used at sign-up: none, the code of u1, a code nobody has
SignupCodes == {None, "C1", "ZZ"}
Sigs == 1..NumSigs
\* volume_usd of a trade, in dollars: a reversal, and trades whose referrer
\* share (0.1%) is 100 and 300 dollars against the cap of 300
Volumes == {-1000, 100000, 300000}
\* the calls of record_swap that may be in flight at once; a slot is used
\* again once its call has returned
Calls == {1, 2}

RECURSIVE FnSum(_, _)
FnSum(f, S) == IF S = {} THEN 0
               ELSE LET x == CHOOSE y \in S : TRUE IN f[x] + FnSum(f, S \ {x})

Min(a, b) == IF a <= b THEN a ELSE b

\* ------------------------------------------------------------------------
\* State: the collections of DatabaseService and the calls in flight
\* ------------------------------------------------------------------------
VARIABLES
    users,          \* privy_id -> user document (unique index on privy_id)
    referrals,      \* referee_privy_id -> referral document (unique index)
    swaps,          \* bag of swap documents (a collection keeps no order)
    daily_volumes,  \* <<user_privy_id, date>> -> volume_usd (unique index)
    payouts,        \* sequence of payout documents; _id is the position
    now,            \* datetime.utcnow(), in whole days
    calls,          \* frames of the record_swap calls
    signups,        \* frames of the get_or_create_user calls
    returned,       \* what the step just taken returned to a caller, if it did
    accrued,        \* history: per signature, the credits and increments made
                    \* and the day of the increment
    fee_call,       \* the last direct call of calculate_fee_split
    cycle,          \* frame of the payout job
    transferred,    \* history: per referrer, the amount the transfers delivered
    claim_job,      \* frame and result of claim_jupiter_fees_task
    price_cache,    \* _price_cache of price_service.py: mint -> (price, timestamp)
    clock,          \* time.time(), in seconds
    market,         \* the price the market-data boundary has for each mint
    price_call,     \* frame of the call of the price service in flight
    price_ret,      \* what the last call of the price service returned
    ix,             \* the instruction the protocol encoder built last
    task_job,       \* frame and result of the background job run last
    other_cycle     \* frame of a second payout run, while it does not step

db == <<users, referrals, swaps, daily_volumes, payouts>>
encoder == <<ix, task_job, other_cycle>>
side == <<claim_job, price_cache, clock, market, price_call, price_ret, encoder>>
job == <<cycle, transferred, side>>
vars == <<users, referrals, swaps, daily_volumes, payouts, now, calls, signups,
          returned, accrued, fee_call, cycle, transferred, claim_job,
          price_cache, clock, market, price_call, price_ret, ix, task_job,
          other_cycle>>

NoReferral == [found |-> FALSE, referrer_privy_id |-> None, total_earned |-> 0,
               capped |-> FALSE]
IdleCall == [pc |-> "idle", op |-> "record_swap", amount |-> 0, tx_signature |-> NoSig, wallet_address |-> None,
             volume_usd |-> 0, user |-> None, referred_by |-> None,
             referrer_privy_id |-> None, referrer_capped |-> TRUE,
             referral |-> NoReferral, today |-> NoTime,
             volume_30d |-> 0]
NoReturn == [op |-> None, ret |-> None, log |-> None]
NoAccrual == [s \in Sigs |-> [credits |-> 0, increments |-> 0, day |-> NoTime]]
IdleSignup == [pc |-> "idle", privy_id |-> None, code |-> None, referrer |-> None,
               wallet_address |-> None, wallet_id |-> None, user_id |-> None]
IdleCycle == [pc |-> "idle", queue |-> {}, privy_id |-> None, amount_usd |-> 0,
              payout_id |-> 0, all_sent |-> FALSE, rows_seen |-> 0]
NoTransfers == [u \in Users |-> 0]
NoFeeCall == [volume_usd |-> 0, has_referrer |-> FALSE, referrer_capped |-> FALSE,
              called |-> FALSE, result |-> calculate_fee_split(0, FALSE, FALSE)]

\* a value Python takes as false in `if value`: None or the empty string
Missing(value) == value \in {None, ""}

\* models.py lines 159-166: an argument is stored when it is given, None
\* otherwise
IfGiven(value) == IF Missing(value) THEN None ELSE value

\* ------------------------------------------------------------------------
\* models.py: document constructors.  The fields no operation of the ledger
\* reads are left out: created_at of a user, a referral and a payout, the
\* token names and amounts of a swap, amount_agent of a payout, the Telegram
\* fields of a user.  wallet_id and user_id of a user are None unless the
\* sign-up gives them.
\* ------------------------------------------------------------------------
user_document(privy_id, wallet_address, referred_by) ==
    [privy_id |-> privy_id, wallet_address |-> IfGiven(wallet_address),
     wallet_id |-> None, user_id |-> None,
     referral_code |-> CodeOf[privy_id], referred_by |-> referred_by,
     volume_30d |-> 0, last_trade_at |-> NoTime]

referral_document(referrer_privy_id, referee_privy_id) ==
    [referrer_privy_id |-> referrer_privy_id, referee_privy_id |-> referee_privy_id,
     total_earned |-> 0, cap |-> REFERRAL_CAP, capped |-> FALSE,
     capped_at |-> NoTime]

swap_document(tx_signature, user_privy_id, wallet_address, volume_usd, fee_split, referrer_privy_id) ==
    [tx_signature |-> tx_signature, user_privy_id |-> user_privy_id,
     wallet_address |-> wallet_address, volume_usd |-> volume_usd * USD,
     fee_amount_usd |-> fee_split.gross_fee,
     jupiter_amount |-> fee_split.jupiter_amount,
     platform_amount |-> fee_split.platform_amount,
     referrer_privy_id |-> referrer_privy_id,
     referrer_amount |-> fee_split.referrer_amount,
     created_at |-> now]

payout_document(privy_id, wallet_address, amount_usd) ==
    [privy_id |-> privy_id, wallet_address |-> wallet_address,
     amount_usd |-> amount_usd, tx_signature |-> None, status |-> "pending",
     sent_at |-> NoTime]

\* ------------------------------------------------------------------------
\* tasks.py and price_service.py: the state outside the document store
\* ------------------------------------------------------------------------
\* the token accounts a referral identity holds
ClaimAccounts == {"a1", "a2"}
\* lines 53-57: results before any stage has run
InitialResults ==
    [ultra |-> [claimed |-> {}, errors |-> {}],
     trigger |-> [claimed |-> {}, errors |-> {}],
     sweep |-> [swept |-> {}, errors |-> {}]]
\* no exception raised
NoException == [kind |-> None, message |-> None]
IdleClaimJob == [pc |-> "idle", ultra_code |-> FALSE, trigger_code |-> FALSE,
                 results |-> InitialResults, called |-> {},
                 delivered |-> InitialResults, status |-> None,
                 error |-> None, raised |-> NoException, propagated |-> FALSE]

\* the mints whose price is asked for
Mints == {"m1", "m2"}
\* the prices the market-data boundary quotes
Prices == {1, 2}
NoPrice == -1
\* a mint argument that is not a mint (line 157: empty or "unknown")
NotAMint == "unknown"
IdlePriceCall == [pc |-> "idle", op |-> None, mint |-> None, now |-> 0,
                  results |-> << >>, to_fetch |-> {}, pending |-> {},
                  requests |-> 0, hits |-> {}, quoted |-> << >>]
\* value: what get_token_price returned; results: what
\* get_multiple_token_prices returned; history of the call: the requests it
\* made, the mints it answered from the cache, the quotes it was given
NoPriceReturn == [op |-> None, value |-> NoPrice, results |-> << >>,
                  requests |-> 0, hits |-> {}, quoted |-> << >>]

\* the addresses handed to the protocol encoder
Pubkeys == {"k1", "k2"}
\* the programs the instructions name
REFERRAL_PROGRAM_ID == "REFER4ZgmyYx9c6He5XfaTMiGfdLwRnkV4RPp9t9iF3"
TOKEN_PROGRAM_ID == "TokenkegQfeZyiNwAJbNbGKPFXCWuBvf9Ss623VQ5DA"
TOKEN_2022_PROGRAM_ID == "TokenzQdBNbLqP5VEhdkAS6EPFLC1PHnBqCXEpPxuEb"
ASSOCIATED_TOKEN_PROGRAM_ID == "ATokenGPvbdGVxr1b2hvZbsiqW5xWH25efTNsLJA8knL"
SYSTEM_PROGRAM_ID == "11111111111111111111111111111111"
NoInstruction == [builder |-> None, args |-> None,
                  instruction |-> [program_id |-> None, accounts |-> << >>,
                                   data |-> << >>]]
\* the three job functions of tasks.py
TaskNames == {"claim_jupiter_fees_task", "run_daily_payout_task",
              "check_referral_balances_task"}
\* results: the run's results; raised: the exception the run raised;
\* propagated: the exception left the job function
IdleTask == [pc |-> "idle", name |-> None, ultra_code |-> FALSE,
             trigger_code |-> FALSE, results |-> None, status |-> None,
             error |-> None, raised |-> NoException, propagated |-> FALSE]

InitSide ==
    /\ claim_job = IdleClaimJob
    /\ price_cache = << >>
    /\ clock = 0
    /\ market = [m \in Mints |-> 1]
    /\ price_call = IdlePriceCall
    /\ price_ret = NoPriceReturn
    /\ ix = NoInstruction
    /\ task_job = IdleTask
    /\ other_cycle = IdleCycle

\* The empty store, right after setup_indexes
InitEmpty ==
    /\ users = << >>
    /\ referrals = << >>
    /\ swaps = EmptyBag
    /\ daily_volumes = << >>
    /\ payouts = << >>
    /\ now = 0
    /\ calls = [p \in Calls |-> IdleCall]
    /\ signups = [u \in Users |-> IdleSignup]
    /\ returned = NoReturn
    /\ accrued = NoAccrual
    /\ fee_call = NoFeeCall
    /\ cycle = IdleCycle
    /\ transferred = NoTransfers
    /\ InitSide

\* The store after get_or_create_user("u1") has returned: there is a user
\* whose referral code the next sign-ups can use
Init ==
    /\ now = 0
    /\ users = ("u1" :> user_document("u1", WalletOf["u1"], None))
    /\ referrals = << >>
    /\ swaps = EmptyBag
    /\ daily_volumes = << >>
    /\ payouts = << >>
    /\ calls = [p \in Calls |-> IdleCall]
    /\ signups = [u \in Users |-> IdleSignup]
    /\ returned = NoReturn
    /\ accrued = NoAccrual
    /\ fee_call = NoFeeCall
    /\ cycle = IdleCycle
    /\ transferred = NoTransfers
    /\ InitSide

\* ------------------------------------------------------------------------
\* database.py: queries
\* ------------------------------------------------------------------------
\* swaps.find_one never finding a row
SwapExists_never(sig) == FALSE

\* swaps.find_one({"tx_signature": sig}) is not None
SwapExists(sig) == \E row \in DOMAIN swaps : row.tx_signature = sig

\* get_user_by_wallet with a filter that matches every user
get_user_by_wallet_first(wallet_address) ==
    IF users # << >> THEN CHOOSE u \in DOMAIN users : TRUE ELSE None

\* get_user_by_wallet: the privy_id of a user with that wallet, or None
get_user_by_wallet(wallet_address) ==
    IF \E u \in DOMAIN users : users[u].wallet_address = wallet_address
    THEN CHOOSE u \in DOMAIN users : users[u].wallet_address = wallet_address
    ELSE None

\* str.upper() on the codes a sign-up may carry: the lower-case spelling of
\* the code of u1 becomes that code, a code in capitals and digits is kept
Upper(code) == IF code = "c1" THEN "C1" ELSE code

\* get_user_by_referral_code comparing the code as it was typed
get_user_by_referral_code_exact(referral_code) ==
    IF \E u \in DOMAIN users : users[u].referral_code = referral_code
    THEN CHOOSE u \in DOMAIN users : users[u].referral_code = referral_code
    ELSE None

\* get_user_by_referral_code (line 103): the privy_id of the user owning the
\* upper-cased code, or None
get_user_by_referral_code(referral_code) ==
    IF \E u \in DOMAIN users : users[u].referral_code = Upper(referral_code)
    THEN CHOOSE u \in DOMAIN users : users[u].referral_code = Upper(referral_code)
    ELSE None

\* get_referral: the row matching both ids, as the snapshot the caller keeps
get_referral(referrer_privy_id, referee_privy_id) ==
    IF /\ referee_privy_id \in DOMAIN referrals
       /\ referrals[referee_privy_id].referrer_privy_id = referrer_privy_id
    THEN [found |-> TRUE, referrer_privy_id |-> referrer_privy_id,
          total_earned |-> referrals[referee_privy_id].total_earned,
          capped |-> referrals[referee_privy_id].capped]
    ELSE NoReferral

\* ------------------------------------------------------------------------
\* Calls and returns.  A frame holds the locals of a call between two awaits;
\* a local is cleared once no later line reads it, and the frame is idle
\* again when the call has returned or raised.
\* ------------------------------------------------------------------------
InFlight(frame) == frame.pc # "idle"
CallsQuiet == \A q \in Calls : ~InFlight(calls[q])
SignupsQuiet == \A u \in Users : ~InFlight(signups[u])
Quiet == CallsQuiet /\ SignupsQuiet

\* A new call takes the lowest free slot (the slots are interchangeable)
MayStart(p) == /\ ~InFlight(calls[p])
               /\ \A q \in Calls : q < p => InFlight(calls[q])

Return(op, ret, log) == [op |-> op, ret |-> ret, log |-> log]

\* ------------------------------------------------------------------------
\* database.py: record_swap, one action per await
\* ------------------------------------------------------------------------
\* lines 370-372: what record_swap logs and returns for a recorded signature
DuplicateResult == Return("record_swap", None, "Duplicate swap")
\* lines 376-378: what it logs and returns for a wallet no user has
UnknownWalletResult == Return("record_swap", None, "Unknown wallet for swap")

\* lines 351-372: the call is made and swaps.find_one looks for the signature
RecordSwap_find_dup(p, tx_signature, wallet_address, volume_usd) ==
    /\ MayStart(p)
    /\ IF SwapExists(tx_signature)
       THEN /\ returned' = DuplicateResult
            /\ UNCHANGED calls
       ELSE /\ calls' = [calls EXCEPT ![p] =
                   [IdleCall EXCEPT !.pc = "get_user",
                                    !.tx_signature = tx_signature,
                                    !.wallet_address = wallet_address,
                                    !.volume_usd = volume_usd]]
            /\ returned' = NoReturn
    /\ UNCHANGED <<job, db, now, signups, accrued, fee_call>>

\* lines 374-378 and the test of line 384
RecordSwap_get_user(p) ==
    /\ calls[p].pc = "get_user"
    /\ LET user == get_user_by_wallet(calls[p].wallet_address)
       IN  IF user = None
           THEN /\ calls' = [calls EXCEPT ![p] = IdleCall]
                /\ returned' = UnknownWalletResult
           ELSE /\ calls' = [calls EXCEPT ![p].user = user,
                                          ![p].referred_by = users[user].referred_by,
                                          ![p].pc = IF users[user].referred_by # None
                                                    THEN "get_referral"
                                                    ELSE "insert_swap"]
                /\ returned' = NoReturn
    /\ UNCHANGED <<job, db, now, signups, accrued, fee_call>>

\* lines 385-388
RecordSwap_get_referral(p) ==
    /\ calls[p].pc = "get_referral"
    /\ LET referral == get_referral(calls[p].referred_by, calls[p].user)
       IN  calls' = [calls EXCEPT ![p] =
                IF referral.found /\ ~referral.capped
                THEN [@ EXCEPT !.referrer_privy_id = calls[p].referred_by,
                               !.referrer_capped = FALSE,
                               !.pc = "insert_swap"]
                ELSE [@ EXCEPT !.pc = "insert_swap"]]
    /\ returned' = NoReturn
    /\ UNCHANGED <<job, db, now, signups, accrued, fee_call>>

\* the fee split of the call's trade, lines 391-395
FeeSplitOf(frame) ==
    calculate_fee_split(frame.volume_usd, frame.referrer_privy_id # None,
                        frame.referrer_capped)

\* line 415 without the test of the sign of referrer_amount
CreditDue_anysign(referrer_privy_id, referrer_amount) == referrer_privy_id # None

\* line 415: the referral is credited for an active referrer and a positive share
CreditDue(referrer_privy_id, referrer_amount) ==
    referrer_privy_id # None /\ referrer_amount > 0

\* the frame after line 411: the swap is stored
AfterInsert(frame, swap) ==
    [frame EXCEPT !.amount = swap.referrer_amount,
                  !.wallet_address = None,
                  !.referred_by = None,
                  !.referrer_capped = TRUE,
                  !.pc = IF CreditDue(swap.referrer_privy_id, swap.referrer_amount)
                         THEN "credit_read" ELSE "set_last_trade"]

\* swaps.insert_one without the unique index on tx_signature
InsertSwap_noindex(p, swap) ==
    /\ swaps' = swaps (+) SetToBag({swap})
    /\ calls' = [calls EXCEPT ![p] = AfterInsert(@, swap)]
    /\ returned' = NoReturn

\* swaps.insert_one (line 411) under the unique index on tx_signature
\* (setup_indexes, line 52): a second row with the signature is refused with
\* DuplicateKeyError, which record_swap does not catch
InsertSwap(p, swap) ==
    IF SwapExists(swap.tx_signature)
    THEN /\ calls' = [calls EXCEPT ![p] = IdleCall]
         /\ returned' = Return("record_swap", "DuplicateKeyError", None)
         /\ UNCHANGED swaps
    ELSE /\ swaps' = swaps (+) SetToBag({swap})
         /\ calls' = [calls EXCEPT ![p] = AfterInsert(@, swap)]
         /\ returned' = NoReturn

\* lines 390-415
RecordSwap_insert_swap(p) ==
    /\ calls[p].pc = "insert_swap"
    /\ InsertSwap(p, swap_document(calls[p].tx_signature, calls[p].user,
                                   calls[p].wallet_address, calls[p].volume_usd,
                                   FeeSplitOf(calls[p]), calls[p].referrer_privy_id))
    /\ UNCHANGED <<job, users, referrals, daily_volumes, payouts, now, signups, accrued, fee_call>>

\* ------------------------------------------------------------------------
\* database.py: update_referral_earnings, one action per await
\* ------------------------------------------------------------------------
\* new_total of line 322, from the row as it was read at line 318
NewTotal(referral, amount) == referral.total_earned + amount

\* the $set of lines 325-333 without the min of line 327
CreditUpdate_noclamp(row, referral, amount) ==
    LET capped == NewTotal(referral, amount) >= REFERRAL_CAP
    IN  [row EXCEPT !.total_earned = NewTotal(referral, amount),
                    !.capped = capped,
                    !.capped_at = IF capped THEN now ELSE @]

\* the $set of lines 325-333 applied to the stored row: total_earned and
\* capped are computed from the snapshot `referral`, not from the row
CreditUpdate(row, referral, amount) ==
    LET capped == NewTotal(referral, amount) >= REFERRAL_CAP
    IN  [row EXCEPT !.total_earned = Min(NewTotal(referral, amount), REFERRAL_CAP),
                    !.capped = capped,
                    !.capped_at = IF capped THEN now ELSE @]

\* line 319 testing only that there is a row
CreditRejected_missingonly(referral) == ~referral.found

\* line 319: no row, or the row is capped
CreditRejected(referral) == ~referral.found \/ referral.capped

\* update_referral_earnings has returned `ok`: record_swap goes on with line
\* 423 (it does not read the result), a direct call returns `ok`
AfterCredit(p, ok) ==
    IF calls[p].op = "record_swap"
    THEN /\ calls' = [calls EXCEPT ![p].referral = NoReferral,
                                   ![p].referrer_privy_id = None,
                                   ![p].amount = 0,
                                   ![p].pc = "set_last_trade"]
         /\ returned' = NoReturn
    ELSE /\ calls' = [calls EXCEPT ![p] = IdleCall]
         /\ returned' = Return("update_referral_earnings", ok, None)

\* lines 318-320: get_referral and the early return
Credit_read(p) ==
    /\ calls[p].pc = "credit_read"
    /\ LET referral == get_referral(calls[p].referrer_privy_id, calls[p].user)
       IN  IF CreditRejected(referral)
           THEN AfterCredit(p, "False")
           ELSE /\ calls' = [calls EXCEPT ![p].referral = referral,
                                          ![p].pc = "credit_write"]
                /\ returned' = NoReturn
    /\ UNCHANGED <<job, db, now, signups, accrued, fee_call>>

\* lines 322-345: referrals.update_one with the values computed from the read
Credit_write(p) ==
    /\ calls[p].pc = "credit_write"
    /\ LET referee == calls[p].user
       IN  referrals' =
             IF /\ referee \in DOMAIN referrals
                /\ referrals[referee].referrer_privy_id = calls[p].referrer_privy_id
             THEN [referrals EXCEPT ![referee] =
                      CreditUpdate(@, calls[p].referral, calls[p].amount)]
             ELSE referrals
    /\ accrued' = IF calls[p].tx_signature \in Sigs
                  THEN [accrued EXCEPT ![calls[p].tx_signature].credits = @ + 1]
                  ELSE accrued
    /\ AfterCredit(p, "True")
    /\ UNCHANGED <<job, users, swaps, daily_volumes, payouts, now, signups, fee_call>>

\* a direct call update_referral_earnings(referrer, referee, amount), as the
\* tests of test_database.py make it; its first await is Credit_read
UpdateReferralEarnings_call(p, referrer_privy_id, referee_privy_id, amount) ==
    /\ MayStart(p)
    /\ calls' = [calls EXCEPT ![p] =
            [IdleCall EXCEPT !.op = "update_referral_earnings",
                             !.referrer_privy_id = referrer_privy_id,
                             !.user = referee_privy_id,
                             !.amount = amount,
                             !.pc = "credit_read"]]
    /\ returned' = NoReturn
    /\ UNCHANGED <<job, db, now, signups, accrued, fee_call>>

\* ------------------------------------------------------------------------
\* database.py: the rest of record_swap and update_daily_volume
\* ------------------------------------------------------------------------
\* lines 422-426
RecordSwap_set_last_trade(p) ==
    /\ calls[p].pc = "set_last_trade"
    /\ users' = [users EXCEPT ![calls[p].user].last_trade_at = now]
    /\ calls' = [calls EXCEPT ![p].pc = "inc_daily"]
    /\ returned' = NoReturn
    /\ UNCHANGED <<job, referrals, swaps, daily_volumes, payouts, now,
                   signups, accrued, fee_call>>

\* the upsert writing the volume of the call over the row
DailyVolumesAfterInc_set(key, vol) ==
    (key :> vol) @@ daily_volumes

\* lines 437-441: update_one with $inc and upsert = True, under the unique
\* index on (user_privy_id, date) (line 59): the row of the key is created
\* with the volume or has the volume added to it
DailyVolumesAfterInc(key, vol) ==
    IF key \in DOMAIN daily_volumes
    THEN [daily_volumes EXCEPT ![key] = @ + vol]
    ELSE daily_volumes @@ (key :> vol)

\* lines 435-441: today is read, then the upsert with $inc
UpdateDailyVolume_inc(p) ==
    /\ calls[p].pc = "inc_daily"
    /\ daily_volumes' = DailyVolumesAfterInc(<<calls[p].user, now>>,
                                             calls[p].volume_usd * USD)
    /\ accrued' = IF calls[p].tx_signature \in Sigs
                  THEN [accrued EXCEPT ![calls[p].tx_signature].increments = @ + 1,
                                       ![calls[p].tx_signature].day = now]
                  ELSE accrued
    /\ calls' = [calls EXCEPT ![p].today = now, ![p].volume_usd = 0,
                              ![p].tx_signature = NoSig,
                              ![p].pc = "agg_volume"]
    /\ returned' = NoReturn
    /\ UNCHANGED <<job, users, referrals, swaps, payouts, now, signups, fee_call>>

\* a direct call update_daily_volume(user_privy_id, volume_usd), as the test
\* of test_database.py makes it; its first await is the upsert
UpdateDailyVolume_call(p, user_privy_id, volume_usd) ==
    /\ MayStart(p)
    /\ calls' = [calls EXCEPT ![p] =
            [IdleCall EXCEPT !.op = "update_daily_volume",
                             !.user = user_privy_id,
                             !.volume_usd = volume_usd,
                             !.pc = "inc_daily"]]
    /\ returned' = NoReturn
    /\ UNCHANGED <<job, db, now, signups, accrued, fee_call>>

\* the window of line 444
WINDOW_DAYS == 30

\* the aggregate of lines 445-453 without the $gte on the date
Volume30d_alltime(user_privy_id, today) ==
    LET keys == {k \in DOMAIN daily_volumes : k[1] = user_privy_id}
    IN  FnSum(daily_volumes, keys)

\* the aggregate of lines 445-453 for a user, with `today` as the call read it
Volume30d(user_privy_id, today) ==
    LET keys == {k \in DOMAIN daily_volumes :
                    k[1] = user_privy_id /\ k[2] >= today - WINDOW_DAYS}
    IN  FnSum(daily_volumes, keys)

\* lines 443-453
UpdateDailyVolume_aggregate(p) ==
    /\ calls[p].pc = "agg_volume"
    /\ calls' = [calls EXCEPT ![p].volume_30d = Volume30d(calls[p].user, calls[p].today),
                              ![p].today = NoTime,
                              ![p].pc = "set_volume_30d"]
    /\ returned' = NoReturn
    /\ UNCHANGED <<job, db, now, signups, accrued, fee_call>>

\* lines 455-458, and the return of line 431
UpdateDailyVolume_set(p) ==
    /\ calls[p].pc = "set_volume_30d"
    /\ users' = [users EXCEPT ![calls[p].user].volume_30d = calls[p].volume_30d]
    /\ calls' = [calls EXCEPT ![p] = IdleCall]
    /\ returned' = IF calls[p].op = "record_swap"
                   THEN Return("record_swap", "swap", None)
                   ELSE Return("update_daily_volume", None, None)
    /\ UNCHANGED <<job, referrals, swaps, daily_volumes, payouts, now, signups,
                   accrued, fee_call>>

\* lines 411-429: record_swap catches nothing, so a call whose await raises
\* or whose task is cancelled after the Swap row was inserted ends there
RecordSwap_cut_off(p) ==
    /\ calls[p].op = "record_swap"
    /\ calls[p].pc \in {"credit_read", "credit_write", "set_last_trade",
                        "inc_daily", "agg_volume", "set_volume_30d"}
    /\ calls' = [calls EXCEPT ![p] = IdleCall]
    /\ returned' = Return("record_swap", "Exception", None)
    /\ UNCHANGED <<job, db, now, signups, accrued, fee_call>>

\* ------------------------------------------------------------------------
\* database.py: get_or_create_user, create_user, create_referral
\* ------------------------------------------------------------------------
\* lines 203-219: update_data of a call that found `user`, a field being
\* None when the call leaves it alone
UpdateData(user, wallet_address, wallet_id, user_id) ==
    [wallet_address |-> IF Missing(user.wallet_address)
                        THEN IfGiven(wallet_address) ELSE None,
     wallet_id |-> IF Missing(user.wallet_id) THEN IfGiven(wallet_id) ELSE None,
     user_id |-> IF Missing(user.user_id) THEN IfGiven(user_id) ELSE None]

NoUpdate == [wallet_address |-> None, wallet_id |-> None, user_id |-> None]

\* lines 200-239 and 128-139: the user is looked up by privy_id; for an
\* existing user the call works out update_data and returns when it is empty,
\* a new one goes on into create_user
GetOrCreateUser(call, privy_id, wallet_address, wallet_id, user_id, referral_code_used) ==
    /\ ~InFlight(signups[call])
    /\ IF privy_id \in DOMAIN users
       THEN LET update_data == UpdateData(users[privy_id], wallet_address, wallet_id, user_id)
            IN  IF update_data = NoUpdate
                THEN /\ returned' = Return("get_or_create_user", "user", None)
                     /\ UNCHANGED signups
                ELSE /\ signups' = [signups EXCEPT ![call] =
                            [IdleSignup EXCEPT !.privy_id = privy_id,
                                               !.wallet_address = update_data.wallet_address,
                                               !.wallet_id = update_data.wallet_id,
                                               !.user_id = update_data.user_id,
                                               !.pc = "update_user"]]
                     /\ returned' = NoReturn
       ELSE /\ signups' = [signups EXCEPT ![call] =
                   [IdleSignup EXCEPT !.privy_id = privy_id,
                                      !.wallet_address = wallet_address,
                                      !.wallet_id = wallet_id,
                                      !.user_id = user_id,
                                      !.code = referral_code_used,
                                      !.pc = IF referral_code_used # None
                                             THEN "find_code" ELSE "insert_user"]]
            /\ returned' = NoReturn
    /\ UNCHANGED <<job, db, now, calls, accrued, fee_call>>

\* lines 221-229: users.update_one with $set of update_data
GetOrCreateUser_update(call) ==
    /\ signups[call].pc = "update_user"
    /\ LET privy_id == signups[call].privy_id
           set(field) == IF signups[call][field] # None
                         THEN signups[call][field] ELSE users[privy_id][field]
       IN  users' = [users EXCEPT ![privy_id].wallet_address = set("wallet_address"),
                                  ![privy_id].wallet_id = set("wallet_id"),
                                  ![privy_id].user_id = set("user_id")]
    /\ returned' = Return("get_or_create_user", "user", None)
    /\ signups' = [signups EXCEPT ![call] = IdleSignup]
    /\ UNCHANGED <<job, referrals, swaps, daily_volumes, payouts, now, calls,
                   accrued, fee_call>>

\* a sign-up with the wallet of the identity and no wallet_id or user_id
GetOrCreateUser_call(call, privy_id, referral_code_used) ==
    GetOrCreateUser(call, privy_id, WalletOf[privy_id], None, None, referral_code_used)

\* the one call made for an identity at a time takes the frame of that
\* identity
GetOrCreateUser_find(privy_id, referral_code_used) ==
    GetOrCreateUser_call(privy_id, privy_id, referral_code_used)

\* lines 140-142
CreateUser_find_code(call) ==
    /\ signups[call].pc = "find_code"
    /\ LET referrer == get_user_by_referral_code(signups[call].code)
       IN  signups' = [signups EXCEPT ![call].referrer = referrer,
                                      ![call].code = None,
                                      ![call].pc = IF referrer # None
                                                       THEN "insert_referral"
                                                       ELSE "insert_user"]
    /\ returned' = NoReturn
    /\ UNCHANGED <<job, db, now, calls, accrued, fee_call>>

\* referrals.insert_one replacing the row of the referee
ReferralsAfterInsert_replace(referrer_privy_id, referee_privy_id) ==
    (referee_privy_id :> referral_document(referrer_privy_id, referee_privy_id))
        @@ referrals

\* referrals.insert_one (line 249) under the unique index on referee_privy_id
\* (line 48): a second row for the referee is refused
ReferralsAfterInsert(referrer_privy_id, referee_privy_id) ==
    IF referee_privy_id \in DOMAIN referrals
    THEN referrals
    ELSE referrals @@
         (referee_privy_id :> referral_document(referrer_privy_id, referee_privy_id))

\* create_referral, lines 245-254: the failure of insert_one is caught and
\* None is returned
create_referral(referrer_privy_id, referee_privy_id) ==
    /\ referrals' = ReferralsAfterInsert(referrer_privy_id, referee_privy_id)
    /\ returned' = IF referee_privy_id \in DOMAIN referrals
                   THEN Return("create_referral", None, "Failed to create referral")
                   ELSE Return("create_referral", "referral", "Created referral")
    /\ UNCHANGED <<job, users, swaps, daily_volumes, payouts, now, calls, signups,
                   accrued, fee_call>>

\* lines 144 and 245-254: referrals.insert_one under the unique index on
\* referee_privy_id; the failure is caught and create_referral returns None
CreateUser_insert_referral(call) ==
    /\ signups[call].pc = "insert_referral"
    /\ referrals' = ReferralsAfterInsert(signups[call].referrer, signups[call].privy_id)
    /\ signups' = [signups EXCEPT ![call].pc = "insert_user"]
    /\ returned' = NoReturn
    /\ UNCHANGED <<job, users, swaps, daily_volumes, payouts, now, calls, accrued, fee_call>>

\* lines 146-153: users.insert_one under the unique index on privy_id
CreateUser_insert_user(call) ==
    /\ signups[call].pc = "insert_user"
    /\ LET privy_id == signups[call].privy_id
       IN  IF privy_id \in DOMAIN users
           THEN /\ returned' = Return("get_or_create_user", "DuplicateKeyError", None)
                /\ UNCHANGED users
           ELSE /\ users' = users @@
                       (privy_id :>
                           [user_document(privy_id, signups[call].wallet_address,
                                          signups[call].referrer)
                               EXCEPT !.wallet_id = IfGiven(signups[call].wallet_id),
                                      !.user_id = IfGiven(signups[call].user_id)])
                /\ returned' = Return("get_or_create_user", "user", None)
    /\ signups' = [signups EXCEPT ![call] = IdleSignup]
    /\ UNCHANGED <<job, referrals, swaps, daily_volumes, payouts, now, calls,
                   accrued, fee_call>>

\* ------------------------------------------------------------------------
\* database.py: payouts
\* ------------------------------------------------------------------------
\* payout rows kept in one behaviour
MaxPayouts == 2
\* amount_usd of a payout, in dollars
PayoutAmounts == {50}
PayoutSigs == {"p1"}

\* the first $match of the pipeline of lines 466-473, with $ne None only
PayableSwap_anysign(row) == row.referrer_privy_id # None

\* the first $match of the pipeline of lines 466-473
PayableSwap(row) == row.referrer_privy_id # None /\ row.referrer_amount > 0

\* total_pending of the $group stage for one referrer
TotalPending(privy_id) ==
    LET rows == {row \in DOMAIN swaps :
                    PayableSwap(row) /\ row.referrer_privy_id = privy_id}
    IN  FnSum([row \in rows |-> row.referrer_amount * swaps[row]], rows)

\* the $match of line 485 matching the payouts still pending
PaidStatus_pendingonly(status) == status = "pending"

\* the $match of line 485: only the payouts that were sent count as paid
PaidStatus(status) == status = "sent"

\* lines 484-489: the sum of the paid payouts of one referrer
TotalPaid(privy_id) ==
    LET rows == {i \in DOMAIN payouts :
                    payouts[i].privy_id = privy_id /\ PaidStatus(payouts[i].status)}
    IN  FnSum([i \in rows |-> payouts[i].amount_usd], rows)

\* get_pending_payouts, lines 464-501: the result as a set of
\* [privy_id, wallet_address, pending_amount]
get_pending_payouts ==
    LET matched == {row \in DOMAIN swaps : PayableSwap(row)}
        unpaid == {u \in {row.referrer_privy_id : row \in matched} : TotalPending(u) > 0}
        listed == {u \in unpaid : TotalPending(u) - TotalPaid(u) > 0 /\ u \in DOMAIN users}
    IN  {[privy_id |-> u, wallet_address |-> users[u].wallet_address,
          pending_amount |-> TotalPending(u) - TotalPaid(u)] : u \in listed}

\* get_referral_stats, lines 279-284: pending_payout is the sum of amount_usd
\* over the Payout rows of the referrer whose status is pending
pending_payout(privy_id) ==
    LET rows == {i \in DOMAIN payouts :
                    payouts[i].privy_id = privy_id /\ payouts[i].status = "pending"}
    IN  FnSum([i \in rows |-> payouts[i].amount_usd], rows)

\* get_referral_stats, lines 268-304, without the per-referee list: None for
\* an unknown user
get_referral_stats(privy_id) ==
    IF privy_id \notin DOMAIN users
    THEN None
    ELSE LET mine == {r \in DOMAIN referrals :
                         referrals[r].referrer_privy_id = privy_id}
         IN  [referral_code |-> users[privy_id].referral_code,
              total_referrals |-> Cardinality(mine),
              total_earned |-> FnSum([r \in mine |-> referrals[r].total_earned], mine),
              pending_payout |-> pending_payout(privy_id)]

\* payouts.insert_one of line 517
PayoutsAfterCreate(privy_id, wallet_address, amount_usd) ==
    Append(payouts, payout_document(privy_id, wallet_address, amount_usd))

\* payouts.update_one of lines 522-529: by _id, whatever the status of the row
PayoutsAfterSent(payout_id, tx_signature) ==
    [payouts EXCEPT ![payout_id].status = "sent",
                    ![payout_id].tx_signature = tx_signature,
                    ![payout_id].sent_at = now]

\* payouts.update_one of lines 533-536 writing the status of a success
PayoutsAfterFailed_sent(payout_id) ==
    [payouts EXCEPT ![payout_id].status = "sent"]

\* payouts.update_one of lines 533-536
PayoutsAfterFailed(payout_id) ==
    [payouts EXCEPT ![payout_id].status = "failed"]

\* lines 503-518
create_payout(privy_id, wallet_address, amount_usd) ==
    /\ payouts' = PayoutsAfterCreate(privy_id, wallet_address, amount_usd)
    /\ returned' = NoReturn
    /\ UNCHANGED <<job, users, referrals, swaps, daily_volumes, now, calls, signups,
                   accrued, fee_call>>

\* lines 520-529: update_one by _id, whatever the status of the row
mark_payout_sent(payout_id, tx_signature) ==
    /\ payout_id \in DOMAIN payouts
    /\ payouts' = PayoutsAfterSent(payout_id, tx_signature)
    /\ returned' = NoReturn
    /\ UNCHANGED <<job, users, referrals, swaps, daily_volumes, now, calls, signups,
                   accrued, fee_call>>

\* lines 531-536
mark_payout_failed(payout_id) ==
    /\ payout_id \in DOMAIN payouts
    /\ payouts' = PayoutsAfterFailed(payout_id)
    /\ returned' = NoReturn
    /\ UNCHANGED <<job, users, referrals, swaps, daily_volumes, now, calls, signups,
                   accrued, fee_call>>

\* ------------------------------------------------------------------------
\* The daily payout job: run_daily_payout of the settlement service, which
\* run_daily_payout_task (tasks.py) runs under a job timeout.  The service
\* is modelled as the specification describes the payout stage: every
\* referrer get_pending_payouts lists gets a Payout row, a transfer is
\* attempted, and the row is marked sent on success or failed on exception.
\* The frame keeps two facts about the last run after it has ended: whether
\* every transfer of it was marked sent, and how many Swap rows there were
\* when it started.
\* ------------------------------------------------------------------------
\* the job starts and reads the pending payouts
Payout_start ==
    /\ cycle.pc = "idle"
    /\ cycle' = [IdleCycle EXCEPT !.pc = "next",
                                  !.queue = get_pending_payouts,
                                  !.all_sent = TRUE,
                                  !.rows_seen = BagCardinality(swaps)]
    /\ returned' = NoReturn
    /\ UNCHANGED <<db, now, calls, signups, accrued, fee_call, side, transferred>>

\* the next referrer of the list: create_payout for the pending amount
Payout_create ==
    /\ cycle.pc = "next"
    /\ \E r \in cycle.queue :
          /\ payouts' = PayoutsAfterCreate(r.privy_id, r.wallet_address, r.pending_amount)
          /\ cycle' = [cycle EXCEPT !.pc = "transfer",
                                    !.queue = @ \ {r},
                                    !.privy_id = r.privy_id,
                                    !.amount_usd = r.pending_amount,
                                    !.payout_id = Len(payouts) + 1]
    /\ returned' = NoReturn
    /\ UNCHANGED <<users, referrals, swaps, daily_volumes, now, calls, signups,
                   accrued, fee_call, side, transferred>>

\* the transfer is submitted and lands
Payout_transfer_ok ==
    /\ cycle.pc = "transfer"
    /\ transferred' = [transferred EXCEPT ![cycle.privy_id] = @ + cycle.amount_usd]
    /\ cycle' = [cycle EXCEPT !.pc = "mark_sent"]
    /\ returned' = NoReturn
    /\ UNCHANGED <<db, now, calls, signups, accrued, fee_call, side>>

\* the transfer raises
Payout_transfer_fail ==
    /\ cycle.pc = "transfer"
    /\ cycle' = [cycle EXCEPT !.pc = "mark_failed", !.all_sent = FALSE]
    /\ returned' = NoReturn
    /\ UNCHANGED <<db, now, calls, signups, accrued, fee_call, side, transferred>>

\* mark_payout_sent with the signature of the transfer
Payout_mark_sent(tx_signature) ==
    /\ cycle.pc = "mark_sent"
    /\ payouts' = PayoutsAfterSent(cycle.payout_id, tx_signature)
    /\ cycle' = [cycle EXCEPT !.pc = "next", !.privy_id = None,
                              !.amount_usd = 0, !.payout_id = 0]
    /\ returned' = NoReturn
    /\ UNCHANGED <<users, referrals, swaps, daily_volumes, now, calls, signups,
                   accrued, fee_call, side, transferred>>

\* mark_payout_failed; the job goes on with the next referrer
Payout_mark_failed ==
    /\ cycle.pc = "mark_failed"
    /\ payouts' = PayoutsAfterFailed(cycle.payout_id)
    /\ cycle' = [cycle EXCEPT !.pc = "next", !.privy_id = None,
                              !.amount_usd = 0, !.payout_id = 0]
    /\ returned' = NoReturn
    /\ UNCHANGED <<users, referrals, swaps, daily_volumes, now, calls, signups,
                   accrued, fee_call, side, transferred>>

\* the list is exhausted: the job returns
Payout_end ==
    /\ cycle.pc = "next"
    /\ cycle.queue = {}
    /\ cycle' = [cycle EXCEPT !.pc = "idle"]
    /\ returned' = Return("run_daily_payout", "results", None)
    /\ UNCHANGED <<db, now, calls, signups, accrued, fee_call, side, transferred>>

\* tasks.py, line 215: the job timeout ends the job wherever it is
Payout_timeout ==
    /\ cycle.pc # "idle"
    /\ cycle' = [IdleCycle EXCEPT !.rows_seen = cycle.rows_seen]
    /\ returned' = Return("run_daily_payout", "JobTimeoutException", None)
    /\ UNCHANGED <<db, now, calls, signups, accrued, fee_call, side, transferred>>

\* a second run of the payout job (enqueue_daily_payout, tasks.py lines
\* 212-215, called twice, with two workers): the run that steps is `cycle`,
\* the other one waits at its await; here the other one goes on
Payout_switch ==
    /\ cycle.pc # "idle" \/ other_cycle.pc # "idle"
    /\ cycle' = other_cycle
    /\ other_cycle' = cycle
    /\ returned' = NoReturn
    /\ UNCHANGED <<db, now, calls, signups, accrued, fee_call, transferred,
                   claim_job, price_cache, clock, market, price_call,
                   price_ret, ix, task_job>>

\* ------------------------------------------------------------------------
\* tasks.py: claim_jupiter_fees_task.  The two calls of the settlement
\* service, claim_for_referral and sweep_all_to_agent, return a result that
\* lists what was done and what failed, item by item.
\* ------------------------------------------------------------------------
ledger == <<db, now, calls, signups, accrued, fee_call, cycle, transferred,
           encoder>>
pricing == <<price_cache, clock, market, price_call, price_ret>>

\* what claim_for_referral may return: each account with a balance is
\* either claimed or listed with its error
ClaimResults ==
    {r \in [claimed : SUBSET ClaimAccounts, errors : SUBSET ClaimAccounts] :
        r.claimed \cap r.errors = {}}

\* what sweep_all_to_agent may return
SweepResults ==
    {r \in [swept : SUBSET ClaimAccounts, errors : SUBSET ClaimAccounts] :
        r.swept \cap r.errors = {}}

\* the stage after `stage` skipping the second claim when the first one
\* reported an error
ClaimStageAfter_abort(stage, frame) ==
    CASE stage = "start" -> IF frame.ultra_code THEN "ultra"
                            ELSE IF frame.trigger_code THEN "trigger" ELSE "sweep"
      [] stage = "ultra" -> IF frame.trigger_code /\ frame.results.ultra.errors = {}
                            THEN "trigger" ELSE "sweep"
      [] OTHER -> "sweep"

\* lines 60, 69 and 79: the stage that follows `stage`; a claim is made for
\* an identity whose code is configured, the sweep is always made
ClaimStageAfter(stage, frame) ==
    CASE stage = "start" -> IF frame.ultra_code THEN "ultra"
                            ELSE IF frame.trigger_code THEN "trigger" ELSE "sweep"
      [] stage = "ultra" -> IF frame.trigger_code THEN "trigger" ELSE "sweep"
      [] OTHER -> "sweep"

\* lines 47-60: the job starts with the configured codes
ClaimJob_start(ultra_code, trigger_code) ==
    /\ claim_job.pc = "idle"
    /\ LET frame == [IdleClaimJob EXCEPT !.ultra_code = ultra_code,
                                         !.trigger_code = trigger_code]
       IN  claim_job' = [frame EXCEPT !.pc = ClaimStageAfter("start", frame)]
    /\ returned' = NoReturn
    /\ UNCHANGED <<ledger, pricing>>

\* lines 60-66: claim_for_referral for the Ultra identity returns `result`
ClaimJob_ultra(result) ==
    /\ claim_job.pc = "ultra"
    /\ LET frame == [claim_job EXCEPT !.results.ultra = result,
                                      !.called = @ \cup {"ultra"},
                                      !.delivered.ultra = result]
       IN  claim_job' = [frame EXCEPT !.pc = ClaimStageAfter("ultra", frame)]
    /\ returned' = NoReturn
    /\ UNCHANGED <<ledger, pricing>>

\* lines 69-75: claim_for_referral for the Trigger identity returns `result`
ClaimJob_trigger(result) ==
    /\ claim_job.pc = "trigger"
    /\ LET frame == [claim_job EXCEPT !.results.trigger = result,
                                      !.called = @ \cup {"trigger"},
                                      !.delivered.trigger = result]
       IN  claim_job' = [frame EXCEPT !.pc = ClaimStageAfter("trigger", frame)]
    /\ returned' = NoReturn
    /\ UNCHANGED <<ledger, pricing>>

\* lines 78-91: sweep_all_to_agent returns `result` and the task returns
\* the results with status success
ClaimJob_sweep(result) ==
    /\ claim_job.pc = "sweep"
    /\ claim_job' = [claim_job EXCEPT !.results.sweep = result,
                                      !.called = @ \cup {"sweep"},
                                      !.delivered.sweep = result,
                                      !.status = "success",
                                      !.pc = "idle"]
    /\ returned' = Return("claim_jupiter_fees_task", "success", None)
    /\ UNCHANGED <<ledger, pricing>>

\* ------------------------------------------------------------------------
\* price_service.py: get_token_price and get_multiple_token_prices
\* ------------------------------------------------------------------------
CACHE_TTL_SECONDS == 60
\* seconds the clock may reach
MaxClock == 80
\* seconds that pass in one step of the clock
ClockSteps == {20, 40}
\* what the request to the market-data boundary ends with: 200 with a
\* value, 200 without one, another status, an exception (timeout included)
Responses == {"ok", "novalue", "error", "exception"}

\* the cache test without the TTL
FreshEntry_always(mint, t) == mint \in DOMAIN price_cache

\* lines 163-165 and 226-228: the mint is cached and its entry is younger
\* than the TTL at time t
FreshEntry(mint, t) ==
    /\ mint \in DOMAIN price_cache
    /\ t - price_cache[mint].time < CACHE_TTL_SECONDS

\* lines 186 and 256: _price_cache[mint] = (price, now) for the mints of a
\* function mint -> price
CacheAfterStore(quotes, t) ==
    [m \in DOMAIN price_cache \cup DOMAIN quotes |->
        IF m \in DOMAIN quotes THEN [price |-> quotes[m], time |-> t]
        ELSE price_cache[m]]

\* the quotes of the boundary for a set of mints
QuotesFor(mints) == [m \in mints |-> market[m]]

\* a function extended or overwritten by another
Updated(f, g) == [m \in DOMAIN f \cup DOMAIN g |-> IF m \in DOMAIN g THEN g[m] ELSE f[m]]

PriceReturn(frame, value) ==
    [op |-> frame.op, value |-> value, results |-> frame.results,
     requests |-> frame.requests, hits |-> frame.hits, quoted |-> frame.quoted]

\* lines 157-166: get_token_price is called; an invalid mint and a fresh
\* cache entry end the call at once
GetTokenPrice_check(mint) ==
    /\ price_call.pc = "idle"
    /\ LET frame == [IdlePriceCall EXCEPT !.op = "get_token_price", !.mint = mint,
                                          !.now = clock]
       IN  IF mint = NotAMint
           THEN /\ price_ret' = PriceReturn(frame, NoPrice)
                /\ UNCHANGED price_call
           ELSE IF FreshEntry(mint, clock)
           THEN /\ price_ret' = PriceReturn([frame EXCEPT !.hits = {mint}],
                                            price_cache[mint].price)
                /\ UNCHANGED price_call
           ELSE /\ price_call' = [frame EXCEPT !.pc = "fetch"]
                /\ price_ret' = NoPriceReturn
    /\ returned' = NoReturn
    /\ UNCHANGED <<ledger, claim_job, price_cache, clock, market>>

\* lines 168-197: the request; only a 200 with a value is cached and returned
GetTokenPrice_fetch(response) ==
    /\ price_call.pc = "fetch"
    /\ LET frame == [price_call EXCEPT !.requests = @ + 1]
           mint == price_call.mint
       IN  IF response = "ok"
           THEN /\ price_cache' = CacheAfterStore(QuotesFor({mint}), price_call.now)
                /\ price_ret' = PriceReturn([frame EXCEPT !.quoted = QuotesFor({mint})],
                                            market[mint])
           ELSE /\ price_ret' = PriceReturn(frame, NoPrice)
                /\ UNCHANGED price_cache
    /\ price_call' = IdlePriceCall
    /\ returned' = NoReturn
    /\ UNCHANGED <<ledger, claim_job, clock, market>>

\* lines 210-234: get_multiple_token_prices is called; the fresh entries are
\* answered from the cache and the rest is to be fetched
GetMultiple_check(mints) ==
    /\ price_call.pc = "idle"
    /\ LET valid_mints == mints \ {NotAMint}
           cached == {m \in valid_mints : FreshEntry(m, clock)}
           frame == [IdlePriceCall EXCEPT
                        !.op = "get_multiple_token_prices",
                        !.now = clock,
                        !.results = [m \in cached |-> price_cache[m].price],
                        !.hits = cached,
                        !.to_fetch = valid_mints \ cached]
       IN  IF frame.to_fetch = {}
           THEN /\ price_ret' = PriceReturn(frame, NoPrice)
                /\ UNCHANGED price_call
           ELSE /\ price_call' = [frame EXCEPT !.pc = "multi_fetch"]
                /\ price_ret' = NoPriceReturn
    /\ returned' = NoReturn
    /\ UNCHANGED <<ledger, claim_job, price_cache, clock, market>>

\* the frame after the single fetches of the fallback are done for `mint`
AfterFallback(frame, mint) ==
    [frame EXCEPT !.pending = @ \ {mint}, !.mint = None,
                  !.pc = IF frame.pending \ {mint} = {} THEN "idle"
                         ELSE "fallback_check"]

\* the step of a fallback loop ends the call when no mint is left
FallbackDone(frame, mint) ==
    IF frame.pending \ {mint} = {}
    THEN /\ price_call' = IdlePriceCall
         /\ price_ret' = PriceReturn(frame, NoPrice)
    ELSE /\ price_call' = AfterFallback(frame, mint)
         /\ price_ret' = NoPriceReturn

\* lines 236-273: the multi-price request.  A 200 with data stores and
\* returns the prices of the mints that came with a value (`priced`); a 200
\* without data returns what the cache gave; another status, or an
\* exception raised after `priced` was stored, starts the single fetches
GetMultiple_fetch(response, priced) ==
    /\ price_call.pc = "multi_fetch"
    /\ priced \subseteq price_call.to_fetch
    /\ response \in {"novalue", "error"} => priced = {}
    /\ LET frame == [price_call EXCEPT !.requests = @ + 1,
                                       !.results = Updated(@, QuotesFor(priced)),
                                       !.quoted = QuotesFor(priced)]
       IN  /\ price_cache' = CacheAfterStore(QuotesFor(priced), price_call.now)
           /\ IF response \in {"ok", "novalue"}
              THEN /\ price_call' = IdlePriceCall
                   /\ price_ret' = PriceReturn(frame, NoPrice)
              ELSE /\ price_call' = [frame EXCEPT !.pending = price_call.to_fetch,
                                                  !.pc = "fallback_check"]
                   /\ price_ret' = NoPriceReturn
    /\ returned' = NoReturn
    /\ UNCHANGED <<ledger, claim_job, clock, market>>

\* lines 260-263 and 268-271: get_token_price for the next mint of
\* mints_to_fetch, up to its cache test (lines 157-166)
Fallback_check(mint) ==
    /\ price_call.pc = "fallback_check"
    /\ mint \in price_call.pending
    /\ IF FreshEntry(mint, clock)
       THEN /\ FallbackDone([price_call EXCEPT
                                !.results = Updated(@, (mint :> price_cache[mint].price)),
                                !.hits = @ \cup {mint}], mint)
       ELSE /\ price_call' = [price_call EXCEPT !.mint = mint, !.now = clock,
                                                !.pc = "fallback_fetch"]
            /\ price_ret' = NoPriceReturn
    /\ returned' = NoReturn
    /\ UNCHANGED <<ledger, claim_job, price_cache, clock, market>>

\* the request of that get_token_price (lines 168-197) and the test of
\* lines 262 and 270
Fallback_fetch(response) ==
    /\ price_call.pc = "fallback_fetch"
    /\ LET mint == price_call.mint
           frame == [price_call EXCEPT !.requests = @ + 1]
       IN  IF response = "ok"
           THEN /\ price_cache' = CacheAfterStore(QuotesFor({mint}), price_call.now)
                /\ FallbackDone([frame EXCEPT
                                    !.results = Updated(@, QuotesFor({mint})),
                                    !.quoted = Updated(@, QuotesFor({mint}))], mint)
           ELSE /\ UNCHANGED price_cache
                /\ FallbackDone(frame, mint)
    /\ returned' = NoReturn
    /\ UNCHANGED <<ledger, claim_job, clock, market>>

\* time passes
ClockAdvance(secs) ==
    /\ clock + secs <= MaxClock
    /\ clock' = clock + secs
    /\ returned' = NoReturn
    /\ UNCHANGED <<ledger, claim_job, price_cache, market, price_call, price_ret>>

\* the market moves: the boundary quotes another price for a mint
MarketMoves(mint, price) ==
    /\ market[mint] # price
    /\ market' = [market EXCEPT ![mint] = price]
    /\ returned' = NoReturn
    /\ UNCHANGED <<ledger, claim_job, price_cache, clock, price_call, price_ret>>

\* ------------------------------------------------------------------------
\* tasks.py: what the three job functions do with the outcome of their run
\* ------------------------------------------------------------------------
\* the exceptions a run raises: a fault of the RPC node, a timeout, a
\* malformed account
ExceptionKinds == {"RuntimeError", "TimeoutError", "KeyError"}
TaskExceptions ==
    {[kind |-> "RuntimeError", message |-> "rpc unreachable"],
     [kind |-> "TimeoutError", message |-> "timed out"],
     [kind |-> "KeyError", message |-> "'mint'"]}

\* a handler for timeouts only
Caught_timeout(e) ==
    e.kind = "TimeoutError"

\* lines 92, 130 and 192: `except Exception as e`
Caught(e) ==
    e.kind \in ExceptionKinds

\* lines 92-98, 130-136 and 192-198: the frame of a job whose run raised e
AfterRaise(frame, e) ==
    IF Caught(e)
    THEN [frame EXCEPT !.pc = "idle", !.status = "error", !.error = e.message,
                       !.raised = e]
    ELSE [frame EXCEPT !.pc = "idle", !.raised = e, !.propagated = TRUE]

\* what the job function hands to the job runner after its run raised e
RaiseReturn(name, e) ==
    IF Caught(e) THEN Return(name, "error", e.message) ELSE NoReturn

\* everything but the frame of the job and what was returned last
nottask == <<db, now, calls, signups, accrued, fee_call, cycle, transferred,
             claim_job, pricing, ix, other_cycle>>

\* lines 84-98: a call of the settlement service made by the claim job
\* raises e
ClaimJob_raise(e) ==
    /\ claim_job.pc \in {"ultra", "trigger", "sweep"}
    /\ claim_job' = AfterRaise(claim_job, e)
    /\ returned' = RaiseReturn("claim_jupiter_fees_task", e)
    /\ UNCHANGED <<ledger, pricing>>

\* what service.run_daily_payout may return: how many payouts were sent
\* and how many failed
PayoutTaskResults == [sent : 0..1, failed : 0..1]

\* lines 114-120: run_daily_payout_task starts its run
PayoutTask_start ==
    /\ task_job.pc = "idle"
    /\ task_job' = [IdleTask EXCEPT !.pc = "payout", !.name = "run_daily_payout_task"]
    /\ returned' = NoReturn
    /\ UNCHANGED nottask

\* lines 120-129: service.run_daily_payout returns `result`
PayoutTask_return(result) ==
    /\ task_job.pc = "payout"
    /\ task_job' = [task_job EXCEPT !.pc = "idle", !.results = result,
                                    !.status = "success"]
    /\ returned' = Return("run_daily_payout_task", "success", None)
    /\ UNCHANGED nottask

\* the balance check returning after its first stage only
BalanceAfter_ultraonly(stage, frame) ==
    IF stage = "start" /\ frame.ultra_code THEN [frame EXCEPT !.pc = "ultra"]
    ELSE [frame EXCEPT !.pc = "idle", !.status = "success"]

\* lines 154, 168 and 182-191: the frame after `stage` of the balance
\* check; the accounts of an identity are read when its code is
\* configured, and after the last stage the job returns with success
BalanceAfter(stage, frame) ==
    IF stage = "start" /\ frame.ultra_code THEN [frame EXCEPT !.pc = "ultra"]
    ELSE IF stage \in {"start", "ultra"} /\ frame.trigger_code
         THEN [frame EXCEPT !.pc = "trigger"]
         ELSE [frame EXCEPT !.pc = "idle", !.status = "success"]

BalanceReturn(frame) ==
    IF frame.pc = "idle"
    THEN Return("check_referral_balances_task", frame.status, None)
    ELSE NoReturn

\* lines 146-154: check_referral_balances_task starts its run
BalanceTask_start(ultra_code, trigger_code) ==
    /\ task_job.pc = "idle"
    /\ LET frame == [IdleTask EXCEPT !.name = "check_referral_balances_task",
                                     !.ultra_code = ultra_code,
                                     !.trigger_code = trigger_code,
                                     !.results = [ultra |-> {}, trigger |-> {}]]
       IN  /\ task_job' = BalanceAfter("start", frame)
           /\ returned' = BalanceReturn(BalanceAfter("start", frame))
    /\ UNCHANGED nottask

\* lines 154-166: get_referral_token_accounts returns the accounts of the
\* Ultra identity
BalanceTask_ultra(accounts) ==
    /\ task_job.pc = "ultra"
    /\ LET frame == [task_job EXCEPT !.results.ultra = accounts]
       IN  /\ task_job' = BalanceAfter("ultra", frame)
           /\ returned' = BalanceReturn(BalanceAfter("ultra", frame))
    /\ UNCHANGED nottask

\* lines 168-180: get_referral_token_accounts returns the accounts of the
\* Trigger identity
BalanceTask_trigger(accounts) ==
    /\ task_job.pc = "trigger"
    /\ LET frame == [task_job EXCEPT !.results.trigger = accounts]
       IN  /\ task_job' = BalanceAfter("trigger", frame)
           /\ returned' = BalanceReturn(BalanceAfter("trigger", frame))
    /\ UNCHANGED nottask

\* lines 130-136 and 192-198: the run of the payout job or of the balance
\* check raises e
Task_raise(e) ==
    /\ task_job.pc # "idle"
    /\ task_job' = AfterRaise(task_job, e)
    /\ returned' = RaiseReturn(task_job.name, e)
    /\ UNCHANGED nottask

\* ------------------------------------------------------------------------
\* The protocol encoder: instruction discriminators and the builders of the
\* two claim instructions
\* ------------------------------------------------------------------------
\* the first 8 bytes of the SHA-256 digest of `preimage`, for the preimages
\* the encoder and its mutations hash
Sha256Prefix8(preimage) ==
    CASE preimage = "global:claim" -> <<62, 198, 214, 193, 213, 159, 108, 210>>
      [] preimage = "global:claim_v2" -> <<229, 87, 46, 162, 21, 157, 231, 114>>
      [] preimage = "global:test_instruction" -> <<33, 223, 61, 208, 32, 193, 201, 79>>
      [] preimage = "claim" -> <<221, 27, 60, 49, 44, 247, 216, 22>>
      [] preimage = "claim_v2" -> <<107, 194, 250, 6, 228, 122, 199, 115>>
      [] preimage = "test_instruction" -> <<230, 10, 111, 225, 52, 3, 218, 81>>

\* the digest of the bare instruction name
get_anchor_discriminator_bare(name) ==
    Sha256Prefix8(name)

\* the discriminator of instruction `name`: the first 8 bytes of the
\* SHA-256 digest of "global:" followed by the name
get_anchor_discriminator(name) ==
    Sha256Prefix8("global:" \o name)

CLAIM_DISCRIMINATOR == get_anchor_discriminator("claim")
CLAIM_V2_DISCRIMINATOR == get_anchor_discriminator("claim_v2")

AccountMeta(pubkey, is_signer, is_writable) ==
    [pubkey |-> pubkey, is_signer |-> is_signer, is_writable |-> is_writable]

\* the account list less its payer
ClaimAccountMetas_nopayer(args) ==
    << AccountMeta(args.project, FALSE, FALSE),
       AccountMeta(args.admin, FALSE, FALSE),
       AccountMeta(args.project_admin_token_account, FALSE, TRUE),
       AccountMeta(args.referral_account, FALSE, FALSE),
       AccountMeta(args.referral_token_account, FALSE, TRUE),
       AccountMeta(args.partner, FALSE, FALSE),
       AccountMeta(args.partner_token_account, FALSE, TRUE),
       AccountMeta(args.mint, FALSE, FALSE),
       AccountMeta(ASSOCIATED_TOKEN_PROGRAM_ID, FALSE, FALSE),
       AccountMeta(SYSTEM_PROGRAM_ID, FALSE, FALSE),
       AccountMeta(args.token_program, FALSE, FALSE) >>

\* the 12 accounts of a claim, in the order of the referral program: the
\* payer first, signer and writable, then the ten other arguments and the
\* two fixed programs.  The specification fixes the number of accounts and
\* account 0; the token accounts are the writable ones among the rest.
ClaimAccountMetas(args) ==
    << AccountMeta(args.payer, TRUE, TRUE),
       AccountMeta(args.project, FALSE, FALSE),
       AccountMeta(args.admin, FALSE, FALSE),
       AccountMeta(args.project_admin_token_account, FALSE, TRUE),
       AccountMeta(args.referral_account, FALSE, FALSE),
       AccountMeta(args.referral_token_account, FALSE, TRUE),
       AccountMeta(args.partner, FALSE, FALSE),
       AccountMeta(args.partner_token_account, FALSE, TRUE),
       AccountMeta(args.mint, FALSE, FALSE),
       AccountMeta(ASSOCIATED_TOKEN_PROGRAM_ID, FALSE, FALSE),
       AccountMeta(SYSTEM_PROGRAM_ID, FALSE, FALSE),
       AccountMeta(args.token_program, FALSE, FALSE) >>

\* the instruction of the first variant
create_claim_instruction(args) ==
    [program_id |-> REFERRAL_PROGRAM_ID,
     accounts |-> ClaimAccountMetas(args),
     data |-> CLAIM_DISCRIMINATOR]

\* the instruction of the second variant: the same but for the
\* discriminator
create_claim_v2_instruction(args) ==
    [program_id |-> REFERRAL_PROGRAM_ID,
     accounts |-> ClaimAccountMetas(args),
     data |-> CLAIM_V2_DISCRIMINATOR]

\* everything but the encoder's output
notix == <<db, now, calls, signups, returned, accrued, fee_call, cycle,
           transferred, claim_job, pricing, task_job, other_cycle>>

CreateClaimInstruction(args) ==
    /\ ix' = [builder |-> "claim", args |-> args,
              instruction |-> create_claim_instruction(args)]
    /\ UNCHANGED notix

CreateClaimV2Instruction(args) ==
    /\ ix' = [builder |-> "claim_v2", args |-> args,
              instruction |-> create_claim_v2_instruction(args)]
    /\ UNCHANGED notix

\* ------------------------------------------------------------------------
\* The clock
\* ------------------------------------------------------------------------
Tick ==
    /\ now < MaxDay
    /\ now' = now + 1
    /\ returned' = NoReturn
    /\ UNCHANGED <<job, db, calls, signups, accrued, fee_call>>

\* `days` days pass
DaysPass(days) ==
    /\ now' = now + days
    /\ returned' = NoReturn
    /\ UNCHANGED <<job, db, calls, signups, accrued, fee_call>>

\* ------------------------------------------------------------------------
\* A direct call of calculate_fee_split
\* ------------------------------------------------------------------------
\* volume_usd of the direct calls, in dollars
FeeVolumes == {100 * k : k \in -10..40} \cup {100000, 300000}

CalculateFeeSplit(volume_usd, has_referrer, referrer_capped) ==
    /\ fee_call' = [volume_usd |-> volume_usd, has_referrer |-> has_referrer,
                    referrer_capped |-> referrer_capped, called |-> TRUE,
                    result |-> calculate_fee_split(volume_usd, has_referrer,
                                                   referrer_capped)]
    /\ returned' = NoReturn
    /\ UNCHANGED <<job, db, now, calls, signups, accrued>>

\* ------------------------------------------------------------------------
\* Specifications
\* ------------------------------------------------------------------------
SignupStart ==
    \E u \in SignupUsers, c \in SignupCodes : GetOrCreateUser_find(u, c)

SignupStep ==
    \/ \E u \in Users : CreateUser_find_code(u)
    \/ \E u \in Users : CreateUser_insert_referral(u)
    \/ \E u \in Users : CreateUser_insert_user(u)

RecordSwapStart(p) ==
    \E sig \in Sigs, w \in Wallets, v \in Volumes : RecordSwap_find_dup(p, sig, w, v)

RecordSwapStep(p) ==
    \/ RecordSwap_get_user(p)
    \/ RecordSwap_get_referral(p)
    \/ RecordSwap_insert_swap(p)
    \/ Credit_read(p)
    \/ Credit_write(p)
    \/ RecordSwap_set_last_trade(p)
    \/ UpdateDailyVolume_inc(p)
    \/ UpdateDailyVolume_aggregate(p)
    \/ UpdateDailyVolume_set(p)

\* Spec: sign-ups and record_swap calls, their awaits interleaved
Next ==
    \/ SignupStart
    \/ SignupStep
    \/ \E p \in Calls : RecordSwapStart(p)
    \/ \E p \in Calls : RecordSwapStep(p)

Spec == Init /\ [][Next]_vars

\* amount of a direct credit, in dollars
CreditAmounts == {150, 299}

\* the identities payouts are made out to
PayoutUsers == {"u1", "u2"}

PayoutStep ==
    \/ /\ Len(payouts) < MaxPayouts
       /\ \E u \in PayoutUsers, a \in PayoutAmounts : create_payout(u, WalletOf[u], a * USD)
    \/ \E i \in 1..MaxPayouts, sig \in PayoutSigs : mark_payout_sent(i, sig)
    \/ \E i \in 1..MaxPayouts : mark_payout_failed(i)

CreditStart ==
    \E referee \in SignupUsers, a \in CreditAmounts :
        UpdateReferralEarnings_call(1, "u1", referee, a * USD)

\* the wallets of the trades of SpecSeq: the wallet of u2 and a wallet no
\* user has
SeqWallets == {"w2", "w3"}

SeqTradeStart ==
    \E sig \in Sigs, w \in SeqWallets, v \in Volumes : RecordSwap_find_dup(1, sig, w, v)

\* SpecSeq: the calls made one after the other, each returning before the
\* next is made: sign-ups, record_swap, and the days passing
NextSeq ==
    \/ Quiet /\ SignupStart
    \/ SignupStep
    \/ Quiet /\ SeqTradeStart
    \/ RecordSwapStep(1)
    \/ Quiet /\ Tick

SpecSeq == Init /\ [][NextSeq]_vars

\* SpecCredit: as SpecSeq, with direct calls of update_referral_earnings
NextCredit ==
    \/ NextSeq
    \/ Quiet /\ CreditStart

SpecCredit == Init /\ [][NextCredit]_vars

\* volume_usd of the trades recorded between payouts: a reversal and a trade
\* whose referrer share is 100 dollars
PayoutTradeVolumes == {-1000, 100000}

PayoutTradeStart ==
    \E sig \in Sigs, w \in Wallets, v \in PayoutTradeVolumes :
        RecordSwap_find_dup(1, sig, w, v)

\* SpecPayout: the calls made one after the other: sign-ups, record_swap and
\* the payout operations
NextPayout ==
    \/ Quiet /\ SignupStart
    \/ SignupStep
    \/ Quiet /\ PayoutTradeStart
    \/ RecordSwapStep(1)
    \/ Quiet /\ PayoutStep

SpecPayout == Init /\ [][NextPayout]_vars

\* referral_code_used of the sign-ups of SpecSignup: none, the code of u1 in
\* capitals and in lower case, the code of u2, a code nobody has
CreateUserCodes == {None, "C1", "c1", "C2", "ZZ"}
\* the identities that sign up in SpecSignup
CreateUserIds == {"u2", "u3"}

CreateUserStart ==
    \E u \in CreateUserIds, c \in CreateUserCodes : GetOrCreateUser_find(u, c)

\* SpecSignup: the sign-ups of two identities, their awaits interleaved
NextSignup ==
    \/ CreateUserStart
    \/ SignupStep

SpecSignup == Init /\ [][NextSignup]_vars

\* referral_code_used of the sign-ups of SpecSignupRace: none, the code of
\* u1, the code of u2
RaceCodes == {None, "C1", "C2"}

\* SpecSignupRace: sign-ups of u2 and u3, several calls for one identity at
\* overlapping times with any codes, their awaits interleaved
NextSignupRace ==
    \/ \E call \in Users, u \in CreateUserIds, c \in RaceCodes :
            GetOrCreateUser_call(call, u, c)
    \/ SignupStep

SpecSignupRace == Init /\ [][NextSignupRace]_vars

\* the arguments of the get_or_create_user calls of SpecProfile: calls for
\* u2, without a wallet as the bot makes them on a first message, or with
\* one of two wallets, wallet ids and Privy ids
ProfileIds == {"u2"}
ProfileCalls == {"u2", "u3"}
ProfileWallets == {None, "", "w2", "w9"}
ProfileWalletIds == {None, "i1", "i2"}
ProfileUserIds == {None, "d1", "d2"}
ProfileCodes == {None, "C1"}

ProfileStart ==
    \E call \in ProfileCalls, u \in ProfileIds, w \in ProfileWallets,
       wid \in ProfileWalletIds, uid \in ProfileUserIds, c \in ProfileCodes :
        GetOrCreateUser(call, u, w, wid, uid, c)

ProfileUpdate ==
    \E call \in Users : GetOrCreateUser_update(call)

\* SpecProfile: get_or_create_user calls for one identity at overlapping
\* times, their awaits interleaved
NextProfile ==
    \/ ProfileStart
    \/ SignupStep
    \/ ProfileUpdate

SpecProfile == Init /\ [][NextProfile]_vars

\* SpecProfileSeq: the same calls made one after the other
NextProfileSeq ==
    \/ SignupsQuiet /\ ProfileStart
    \/ SignupStep
    \/ ProfileUpdate

SpecProfileSeq == Init /\ [][NextProfileSeq]_vars

\* the wallets of the trades of SpecCase: the wallet of u2 as u2 signed up
\* with it, and the same address with its letter in the other case
CaseWallets == {"w2", "W2"}
CaseVolumes == {100000, 300000}

CaseTradeStart ==
    \E sig \in Sigs, w \in CaseWallets, v \in CaseVolumes :
        RecordSwap_find_dup(1, sig, w, v)

\* SpecCase: sign-ups and trades made one after the other, the trade events
\* spelling the wallet address in either case
NextCase ==
    \/ Quiet /\ SignupStart
    \/ SignupStep
    \/ Quiet /\ CaseTradeStart
    \/ RecordSwapStep(1)

SpecCase == Init /\ [][NextCase]_vars

\* the arguments of the builders in SpecEncode: any addresses, either
\* variant of the token program
ClaimArgs ==
    [payer : Pubkeys, project : Pubkeys, admin : {"k1"},
     project_admin_token_account : Pubkeys, referral_account : Pubkeys,
     referral_token_account : Pubkeys, partner : {"k2"},
     partner_token_account : Pubkeys, mint : Pubkeys,
     token_program : {TOKEN_PROGRAM_ID, TOKEN_2022_PROGRAM_ID}]

\* SpecEncode: the two builders applied to any arguments
NextEncode ==
    \/ \E args \in ClaimArgs : CreateClaimInstruction(args)
    \/ \E args \in ClaimArgs : CreateClaimV2Instruction(args)

SpecEncode == Init /\ [][NextEncode]_vars

\* SpecClaim: claim jobs run one after the other, with either code
\* configured or not and every outcome of the three stages
NextClaim ==
    \/ \E u \in BOOLEAN, t \in BOOLEAN : ClaimJob_start(u, t)
    \/ \E r \in ClaimResults : ClaimJob_ultra(r)
    \/ \E r \in ClaimResults : ClaimJob_trigger(r)
    \/ \E r \in SweepResults : ClaimJob_sweep(r)

SpecClaim == Init /\ [][NextClaim]_vars

\* SpecTasks: the three jobs, each run returning or raising at any of its
\* calls of the settlement service
NextTasks ==
    \/ NextClaim
    \/ \E e \in TaskExceptions : ClaimJob_raise(e)
    \/ PayoutTask_start
    \/ \E r \in PayoutTaskResults : PayoutTask_return(r)
    \/ \E u \in BOOLEAN, t \in BOOLEAN : BalanceTask_start(u, t)
    \/ \E a \in SUBSET ClaimAccounts : BalanceTask_ultra(a)
    \/ \E a \in SUBSET ClaimAccounts : BalanceTask_trigger(a)
    \/ \E e \in TaskExceptions : Task_raise(e)

SpecTasks == Init /\ [][NextTasks]_vars

\* the mint arguments of the calls of SpecPrice
PriceMints == Mints \cup {NotAMint}

\* SpecPrice: calls of the price service made one after the other, while
\* time passes and the market moves
NextPrice ==
    \/ \E m \in PriceMints : GetTokenPrice_check(m)
    \/ \E r \in Responses : GetTokenPrice_fetch(r)
    \/ \E ms \in SUBSET PriceMints : GetMultiple_check(ms)
    \/ \E r \in Responses, priced \in SUBSET Mints : GetMultiple_fetch(r, priced)
    \/ \E m \in Mints : Fallback_check(m)
    \/ \E r \in Responses : Fallback_fetch(r)
    \/ \E secs \in ClockSteps : ClockAdvance(secs)
    \/ \E m \in Mints, price \in Prices : MarketMoves(m, price)

SpecPrice == Init /\ [][NextPrice]_vars

\* The store after the sign-ups of u1, of u2 with the code of u1 and of u3
\* with the code of u2 have returned: two referrers
InitReferred ==
    /\ now = 0
    /\ users = ("u1" :> user_document("u1", WalletOf["u1"], None))
               @@ ("u2" :> user_document("u2", WalletOf["u2"], "u1"))
               @@ ("u3" :> user_document("u3", WalletOf["u3"], "u2"))
    /\ referrals = ("u2" :> referral_document("u1", "u2"))
                   @@ ("u3" :> referral_document("u2", "u3"))
    /\ swaps = EmptyBag
    /\ daily_volumes = << >>
    /\ payouts = << >>
    /\ calls = [p \in Calls |-> IdleCall]
    /\ signups = [u \in Users |-> IdleSignup]
    /\ returned = NoReturn
    /\ accrued = NoAccrual
    /\ fee_call = NoFeeCall
    /\ cycle = IdleCycle
    /\ transferred = NoTransfers
    /\ InitSide

\* Payout rows one behaviour of the payout job creates
MaxJobPayouts == 3
\* transfers that fail in one behaviour
MaxFailures == 1

\* the trades recorded while payout jobs run: by u2 and by u3, each with a
\* referrer share of 100 dollars
JobWallets == {"w2", "w3"}
JobVolumes == {100000}

JobTradeStart ==
    \E sig \in Sigs, w \in JobWallets, v \in JobVolumes : RecordSwap_find_dup(1, sig, w, v)

FailedCount == Cardinality({i \in DOMAIN payouts : payouts[i].status = "failed"})

\* the steps of a payout job that runs to its end
PayoutJobStep ==
    \/ Payout_start
    \/ Payout_create
    \/ Payout_transfer_ok
    \/ FailedCount < MaxFailures /\ Payout_transfer_fail
    \/ \E sig \in PayoutSigs : Payout_mark_sent(sig)
    \/ Payout_mark_failed
    \/ Payout_end

\* SpecJob: trades made one after the other while payout jobs run, a job
\* being cut off by its timeout at any step
NextJob ==
    \/ CallsQuiet /\ JobTradeStart
    \/ RecordSwapStep(1)
    \/ Payout_start
    \/ Len(payouts) < MaxJobPayouts /\ Payout_create
    \/ Payout_transfer_ok
    \/ Payout_transfer_fail
    \/ \E sig \in PayoutSigs : Payout_mark_sent(sig)
    \/ Payout_mark_failed
    \/ Payout_end
    \/ Payout_timeout

SpecJob == InitReferred /\ [][NextJob]_vars

\* SpecJobLive: the jobs run to their end, they keep running, and a transfer
\* that can be attempted again and again eventually lands
NextJobLive ==
    \/ CallsQuiet /\ JobTradeStart
    \/ RecordSwapStep(1)
    \/ PayoutJobStep

SpecJobLive ==
    /\ InitReferred
    /\ [][NextJobLive]_vars
    /\ WF_vars(PayoutJobStep)
    /\ SF_vars(Payout_transfer_ok)

\* the trades recorded while two payout jobs run: by u2, with a referrer
\* share of 100 dollars
OverlapTradeStart ==
    \E sig \in Sigs : RecordSwap_find_dup(1, sig, "w2", 100000)

\* SpecOverlap: two payout jobs run at overlapping times, each to its end
\* with every transfer landing, while trades are recorded
NextOverlap ==
    \/ CallsQuiet /\ OverlapTradeStart
    \/ RecordSwapStep(1)
    \/ Payout_start
    \/ Len(payouts) < MaxJobPayouts /\ Payout_create
    \/ Payout_transfer_ok
    \/ \E sig \in PayoutSigs : Payout_mark_sent(sig)
    \/ Payout_end
    \/ Payout_switch

SpecOverlap == InitReferred /\ [][NextOverlap]_vars

\* the last of the consecutive days of SpecVolume
MaxVolumeDay == 2
\* the volumes of the calls of SpecVolume, in dollars (ten times the 10, 20
\* and 30 of the example, so that the fee shares are whole cents), and the
\* total volume of one behaviour
DailyAmounts == {100, 200, 300}
MaxTotalVolume == 600
\* the trades of SpecVolume: by u2, the referee of u1
VolumeWallets == {"w2"}

TotalVolume == FnSum(daily_volumes, DOMAIN daily_volumes)

VolumeCallStart ==
    \E v \in DailyAmounts :
        /\ TotalVolume + v * USD <= MaxTotalVolume * USD
        /\ UpdateDailyVolume_call(1, "u2", v)

VolumeTradeStart ==
    \E sig \in Sigs, w \in VolumeWallets, v \in DailyAmounts :
        /\ TotalVolume + v * USD <= MaxTotalVolume * USD
        /\ RecordSwap_find_dup(1, sig, w, v)

\* SpecVolume: record_swap and update_daily_volume called one after the
\* other for one user, on consecutive days and a window later
NextVolume ==
    \/ Quiet /\ VolumeCallStart
    \/ Quiet /\ VolumeTradeStart
    \/ RecordSwapStep(1)
    \/ Quiet /\ now < MaxVolumeDay /\ DaysPass(1)
    \/ Quiet /\ now <= MaxVolumeDay /\ DaysPass(WINDOW_DAYS)

SpecVolume == InitReferred /\ [][NextVolume]_vars

\* The store after the sign-ups of u1 and of u2 and u3, both with the code
\* of u1, have returned: two referees of one referrer
InitSiblings ==
    /\ now = 0
    /\ users = ("u1" :> user_document("u1", WalletOf["u1"], None))
               @@ ("u2" :> user_document("u2", WalletOf["u2"], "u1"))
               @@ ("u3" :> user_document("u3", WalletOf["u3"], "u1"))
    /\ referrals = ("u2" :> referral_document("u1", "u2"))
                   @@ ("u3" :> referral_document("u1", "u3"))
    /\ swaps = EmptyBag
    /\ daily_volumes = << >>
    /\ payouts = << >>
    /\ calls = [p \in Calls |-> IdleCall]
    /\ signups = [u \in Users |-> IdleSignup]
    /\ returned = NoReturn
    /\ accrued = NoAccrual
    /\ fee_call = NoFeeCall
    /\ cycle = IdleCycle
    /\ transferred = NoTransfers
    /\ InitSide

\* the trades of SpecRace: by u2 and by u3, with referrer shares of 100 and
\* 300 dollars
RaceWallets == {"w2", "w3"}
RaceVolumes == {100000, 300000}

RaceTradeStart(p) ==
    \E sig \in Sigs, w \in RaceWallets, v \in RaceVolumes : RecordSwap_find_dup(p, sig, w, v)

\* SpecRace: record_swap calls of two referees of one referrer, their awaits
\* interleaved
NextRace ==
    \/ \E p \in Calls : RaceTradeStart(p)
    \/ \E p \in Calls : RecordSwapStep(p)

SpecRace == InitSiblings /\ [][NextRace]_vars

\* the trades of SpecDaily: by u2, of 1000 dollars under the first signature
\* and of 3000 dollars under the others
DailyWallets == {"w2"}

DailyVolumeOf(sig) ==
    IF sig = 1 THEN 1000 ELSE 3000

DailyTradeStart(p) ==
    \E sig \in Sigs, w \in DailyWallets : RecordSwap_find_dup(p, sig, w, DailyVolumeOf(sig))

\* SpecDaily: record_swap calls of one user, their awaits interleaved, while
\* the clock goes on: midnight may fall between any two steps
NextDaily ==
    \/ \E p \in Calls : DailyTradeStart(p)
    \/ \E p \in Calls : RecordSwapStep(p)
    \/ Tick

SpecDaily == InitReferred /\ [][NextDaily]_vars

\* SpecCutOff: record_swap calls made one after the other, a call being cut
\* off at any await after its insert and the trade event delivered again
NextCutOff ==
    \/ Quiet /\ JobTradeStart
    \/ RecordSwapStep(1)
    \/ RecordSwap_cut_off(1)

SpecCutOff == InitReferred /\ [][NextCutOff]_vars

\* the arguments of the direct calls of create_referral: the referrer the
\* referee signs up with, and another one
ReferralReferrers == {"u1", "u3"}
ReferralReferees == {"u2"}
ReferralVolumes == {100000}

ReferralTradeStart ==
    \E sig \in Sigs, w \in Wallets, v \in ReferralVolumes : RecordSwap_find_dup(1, sig, w, v)

CreateReferralStart ==
    \E referrer \in ReferralReferrers, referee \in ReferralReferees :
        create_referral(referrer, referee)

\* SpecReferral: sign-ups, direct calls of create_referral and trades, made
\* one after the other
NextReferral ==
    \/ Quiet /\ SignupStart
    \/ SignupStep
    \/ Quiet /\ CreateReferralStart
    \/ Quiet /\ ReferralTradeStart
    \/ RecordSwapStep(1)

SpecReferral == Init /\ [][NextReferral]_vars

\* SpecFee: calculate_fee_split called on its own
NextFee ==
    \E v \in FeeVolumes, h \in BOOLEAN, c \in BOOLEAN : CalculateFeeSplit(v, h, c)

SpecFee == InitEmpty /\ [][NextFee]_vars

\* ========================================================================
\* Properties
\* ========================================================================
\* the number of Swap rows carrying a signature
SwapCount(sig) ==
    LET rows == {row \in DOMAIN swaps : row.tx_signature = sig}
    IN  FnSum([row \in rows |-> swaps[row]], rows)

\* C1: when record_swap is called with a signature that already has a Swap
\* row (the calls being made one after the other), the call returns None as
\* the duplicate no-op, whatever its wallet and volume are, and changes
\* nothing: the collections (Referral.total_earned, DailyVolume,
\* User.volume_30d and last_trade_at among them) and the accruals stay as
\* they were, and there is exactly one row for the signature, in every state.
C1_SecondCallIsNoOp ==
    /\ [](\A sig \in Sigs : SwapCount(sig) <= 1)
    /\ [][\A sig \in Sigs, w \in SeqWallets, v \in Volumes :
            (SwapCount(sig) >= 1 /\ RecordSwap_find_dup(1, sig, w, v))
                => /\ returned' = Return("record_swap", None, "Duplicate swap")
                   /\ UNCHANGED <<db, accrued, calls>>
                   /\ SwapCount(sig)' = 1]_vars

C1_Witness ==
    /\ returned = Return("record_swap", None, "Duplicate swap")
    /\ Quiet
    /\ \E sig \in Sigs : SwapCount(sig) = 1 /\ accrued[sig].increments = 1
    /\ \E u \in DOMAIN users : users[u].last_trade_at # NoTime

\* C2: however the awaits of concurrent record_swap calls carrying the same
\* signature interleave, there is at most one Swap row per signature, the
\* referral is credited at most once and the daily volume incremented at
\* most once for it, never without the row, and once the calls have returned
\* a recorded signature has been accrued exactly once.
C2_AccruedOnce ==
    \A sig \in Sigs :
        /\ SwapCount(sig) <= 1
        /\ accrued[sig].credits <= 1
        /\ accrued[sig].increments <= 1
        /\ (accrued[sig].credits + accrued[sig].increments > 0) => SwapCount(sig) = 1
        /\ (CallsQuiet /\ SwapCount(sig) = 1) => accrued[sig].increments = 1

C2_Witness ==
    /\ returned = Return("record_swap", "DuplicateKeyError", None)
    /\ \E sig \in Sigs : SwapCount(sig) = 1 /\ accrued[sig].credits = 1

FeeTotal(r) == r.jupiter_amount + r.platform_amount + r.referrer_amount
FeeActive == fee_call.has_referrer /\ ~fee_call.referrer_capped

\* C3 as stated: for every volume_usd >= 0 and every referrer state,
\* jupiter_amount + platform_amount + referrer_amount equals gross_fee.
C3_SumEqualsGross ==
    (fee_call.called /\ fee_call.volume_usd >= 0)
        => FeeTotal(fee_call.result) = fee_call.result.gross_fee

\* C3 amended: for every volume_usd and every referrer state, the three
\* shares add up to 84% of gross_fee, that is to
\* gross_fee * (JUPITER_SPLIT + (1 - JUPITER_SPLIT) * (PLATFORM_SPLIT + REFERRER_SPLIT));
\* they add up to gross_fee only when the volume is 0.
C3_SumIs84PercentOfGross ==
    fee_call.called =>
        /\ FeeTotal(fee_call.result) * 100 = fee_call.result.gross_fee * 84
        /\ (FeeTotal(fee_call.result) = fee_call.result.gross_fee)
               <=> (fee_call.volume_usd = 0)

C3_Witness ==
    /\ fee_call.called
    /\ fee_call.volume_usd = 1000
    /\ FeeActive
    /\ fee_call.result.gross_fee = 5 * USD
    /\ FeeTotal(fee_call.result) * 10 = 42 * USD

\* C4: calculate_fee_split returns the reference split: gross_fee is 0.5% of
\* the volume, jupiter_amount 20% of gross_fee, and of the remaining 80% the
\* platform gets 55% and the referrer 25% when has_referrer and not
\* referrer_capped, otherwise the platform 80% and the referrer nothing;
\* volume 1000 gives 5.00, 1.00, 2.20, 1.00 with an active referrer and
\* 5.00, 1.00, 3.20, 0 without; volume 0 gives zeros, volume -1000 gives -5.
C4_ReferenceSplit ==
    fee_call.called =>
        LET v == fee_call.volume_usd * USD
            r == fee_call.result
        IN  /\ r.gross_fee * 1000 = v * 5
            /\ r.jupiter_amount * 5 = r.gross_fee
            /\ IF FeeActive
               THEN /\ r.platform_amount * 100 = 44 * r.gross_fee
                    /\ r.referrer_amount * 5 = r.gross_fee
               ELSE /\ r.platform_amount * 100 = 64 * r.gross_fee
                    /\ r.referrer_amount = 0
            /\ (fee_call.volume_usd = 1000 /\ FeeActive) =>
                   r = [gross_fee |-> 500, jupiter_amount |-> 100,
                        platform_amount |-> 220, referrer_amount |-> 100]
            /\ (fee_call.volume_usd = 1000 /\ ~FeeActive) =>
                   r = [gross_fee |-> 500, jupiter_amount |-> 100,
                        platform_amount |-> 320, referrer_amount |-> 0]
            /\ (fee_call.volume_usd = 0) =>
                   r = [gross_fee |-> 0, jupiter_amount |-> 0,
                        platform_amount |-> 0, referrer_amount |-> 0]
            /\ (fee_call.volume_usd = -1000) => r.gross_fee = -500

C4_Witness ==
    /\ fee_call.called
    /\ fee_call.volume_usd = 1000
    /\ fee_call.has_referrer /\ fee_call.referrer_capped
    /\ fee_call.result.platform_amount = 320
    /\ fee_call.result.referrer_amount = 0

\* C5: with the calls made one after the other, a credit on an uncapped
\* referral whose total_earned plus the amount reaches or exceeds the cap
\* sets total_earned to the cap and capped to true, stamps capped_at, and
\* update_referral_earnings returns true; a capped referral never changes
\* again, and a credit attempted on it returns false and changes nothing.
C5_CreditAtCap ==
    /\ [][\A referee \in DOMAIN referrals :
            (/\ Credit_write(1)
             /\ calls[1].user = referee
             /\ ~referrals[referee].capped
             /\ referrals[referee].total_earned + calls[1].amount
                    >= referrals[referee].cap)
                => /\ referrals'[referee].total_earned = referrals[referee].cap
                   /\ referrals'[referee].capped
                   /\ referrals'[referee].capped_at = now
                   /\ (calls[1].op = "update_referral_earnings")
                          => returned' = Return("update_referral_earnings", "True", None)]_vars
    /\ [][\A referee \in DOMAIN referrals :
            referrals[referee].capped
                => /\ referrals'[referee] = referrals[referee]
                   /\ (Credit_read(1) /\ calls[1].user = referee)
                          => /\ UNCHANGED db
                             /\ returned' = Return("update_referral_earnings", "False", None)]_vars

C5_Witness ==
    /\ returned = Return("update_referral_earnings", "False", None)
    /\ \E referee \in DOMAIN referrals :
           /\ referrals[referee].capped
           /\ referrals[referee].total_earned = REFERRAL_CAP
           /\ referrals[referee].capped_at # NoTime

\* C6: in every state reached by sign-ups and record_swap calls, however
\* their awaits interleave, every Referral row has cap = REFERRAL_CAP and
\* 0 <= total_earned <= cap.
C6_TotalWithinCap ==
    \A referee \in DOMAIN referrals :
        /\ referrals[referee].cap = REFERRAL_CAP
        /\ referrals[referee].total_earned >= 0
        /\ referrals[referee].total_earned <= referrals[referee].cap

C6_Witness ==
    /\ \A sig \in Sigs : accrued[sig].credits = 1
    /\ \E row \in DOMAIN swaps : row.referrer_amount = 100 * USD
    /\ \E row \in DOMAIN swaps : row.referrer_amount = 300 * USD
    /\ \E referee \in DOMAIN referrals :
           referrals[referee].total_earned = REFERRAL_CAP

\* C7: Referral.total_earned never decreases and capped, once true, never
\* becomes false again, in every behaviour of sign-ups and record_swap calls
\* whose awaits interleave.
C7_EarningsMonotonic ==
    [][\A referee \in DOMAIN referrals :
          /\ referrals'[referee].total_earned >= referrals[referee].total_earned
          /\ referrals[referee].capped => referrals'[referee].capped]_vars

\* the sum of referrer_amount over the Swap rows of a referee that name the
\* referrer of the referral
RefereeRowsSum(referee) ==
    LET rows == {row \in DOMAIN swaps :
                    /\ row.user_privy_id = referee
                    /\ row.referrer_privy_id = referrals[referee].referrer_privy_id}
    IN  FnSum([row \in rows |-> row.referrer_amount * swaps[row]], rows)

\* the pending_amount get_pending_payouts lists for a referrer, 0 if none
PendingOf(referrer) ==
    LET listed == {r \in get_pending_payouts : r.privy_id = referrer}
    IN  FnSum([r \in listed |-> r.pending_amount], listed)

\* the sum of total_earned over the referrals of a referrer
EarnedBy(referrer) ==
    LET mine == {referee \in DOMAIN referrals :
                    referrals[referee].referrer_privy_id = referrer}
    IN  FnSum([referee \in mine |-> referrals[referee].total_earned], mine)

\* C8: once the record_swap calls made one after the other have returned
\* (none of them a reversal: every referrer_amount is >= 0), for every
\* referral the sum of referrer_amount over the referee's Swap rows equals
\* total_earned and does not exceed the cap, and, no payout having been
\* sent, the pending payout of every referrer equals the sum of total_earned
\* over their referrals.
C8_RowsMatchTotalEarned ==
    (Quiet /\ \A row \in DOMAIN swaps : row.referrer_amount >= 0) =>
        /\ \A referee \in DOMAIN referrals :
              /\ RefereeRowsSum(referee) = referrals[referee].total_earned
              /\ RefereeRowsSum(referee) <= referrals[referee].cap
        /\ \A referrer \in DOMAIN users : PendingOf(referrer) = EarnedBy(referrer)

\* the Swap rows naming a referrer: all of them, or those with a positive
\* referrer_amount
RowsNaming(referrer, positive_only) ==
    {row \in DOMAIN swaps :
        /\ row.referrer_privy_id = referrer
        /\ positive_only => row.referrer_amount > 0}

\* pending of the specification: the referrer share of the rows minus the
\* payouts with status sent
PendingRef(referrer, positive_only) ==
    LET rows == RowsNaming(referrer, positive_only)
        sent == {i \in DOMAIN payouts :
                    payouts[i].privy_id = referrer /\ payouts[i].status = "sent"}
    IN  FnSum([row \in rows |-> row.referrer_amount * swaps[row]], rows)
            - FnSum([i \in sent |-> payouts[i].amount_usd], sent)

ListedRef(positive_only) ==
    {[privy_id |-> u, wallet_address |-> users[u].wallet_address,
      pending_amount |-> PendingRef(u, positive_only)] :
        u \in {x \in DOMAIN users : PendingRef(x, positive_only) > 0}}

\* C9 as stated: get_pending_payouts lists exactly the referrers whose sum of
\* referrer_amount over all their Swap rows, whatever their sign, minus their
\* sent payouts is > 0, with that difference as pending_amount.
C9_PendingOverAllRows == get_pending_payouts = ListedRef(FALSE)

\* C9 amended: get_pending_payouts lists exactly the referrers whose sum of
\* referrer_amount over their Swap rows with referrer_amount > 0, minus the
\* sum of amount_usd over their Payout rows with status sent, is > 0, with
\* that difference as pending_amount; pending and failed payouts do not
\* reduce it.
C9_PendingOverPositiveRows == get_pending_payouts = ListedRef(TRUE)

C9_Witness ==
    \E r \in get_pending_payouts :
        /\ r.pending_amount = 50 * USD
        /\ \E row \in DOMAIN swaps :
               row.referrer_privy_id = r.privy_id /\ row.referrer_amount < 0
        /\ \E i \in DOMAIN payouts :
               payouts[i].privy_id = r.privy_id /\ payouts[i].status = "sent"
        /\ \E i \in DOMAIN payouts :
               payouts[i].privy_id = r.privy_id /\ payouts[i].status = "failed"

\* C10: a Payout row is created with status pending, and no call of
\* create_payout, mark_payout_sent or mark_payout_failed changes the status
\* of a row that is sent or failed.
C10_StatusChangesOnce ==
    [][/\ Len(payouts') > Len(payouts) => payouts'[Len(payouts')].status = "pending"
       /\ \A i \in DOMAIN payouts :
             payouts[i].status \in {"sent", "failed"}
                 => payouts'[i].status = payouts[i].status]_vars

\* the sum of referrer_amount over the Swap rows naming a referrer
SharesOf(referrer) ==
    LET rows == {row \in DOMAIN swaps : row.referrer_privy_id = referrer}
    IN  FnSum([row \in rows |-> row.referrer_amount * swaps[row]], rows)

\* C11: whatever payout jobs run, are cut off by the job timeout at any step
\* and are run again, the amount transferred to a referrer never exceeds the
\* sum of referrer_amount over the Swap rows naming that referrer.
C11_PaidAtMostOnce ==
    \A u \in Users : transferred[u] <= SharesOf(u)

\* the last payout job ran to its end with every transfer marked sent, and
\* no Swap row has been recorded since it started
LastJobSettled ==
    /\ cycle.pc = "idle"
    /\ cycle.all_sent
    /\ BagCardinality(swaps) = cycle.rows_seen

\* C12: after a payout job in which every transfer succeeded and was marked
\* sent, with no Swap row recorded since, no referrer is pending; the next
\* job starts with an empty list, and a job whose list is empty creates no
\* Payout row and makes no transfer.
C12_SecondJobIsNoOp ==
    /\ [](LastJobSettled => get_pending_payouts = {})
    /\ [][(LastJobSettled /\ Payout_start)
              => cycle'.queue = {} /\ UNCHANGED <<payouts, transferred>>]_vars
    /\ [][(cycle.pc = "next" /\ cycle.queue = {})
              => UNCHANGED <<payouts, transferred>>]_vars

C12_Witness ==
    /\ cycle.pc = "next"
    /\ cycle.queue = {}
    /\ BagCardinality(swaps) = cycle.rows_seen
    /\ payouts # << >>
    /\ \A i \in DOMAIN payouts : payouts[i].status = "sent"
    /\ \E u \in Users : transferred[u] > 0 /\ transferred[u] = SharesOf(u)

\* C13: a failed payout attempt marks the Payout failed and leaves the
\* referrer's amount pending, the job going on with the other referrers; if
\* the jobs keep running and a transfer attempted again and again eventually
\* succeeds, every referrer with pending > 0 eventually has pending = 0.
C13_FailedPayoutIsRetried ==
    /\ [][Payout_mark_failed
              => /\ \A i \in DOMAIN payouts :
                        i = cycle.payout_id => payouts'[i].status = "failed"
                 /\ \A u \in Users : PendingRef(u, TRUE)' = PendingRef(u, TRUE)
                 /\ cycle'.pc = "next"
                 /\ cycle'.queue = cycle.queue]_vars
    /\ \A u \in Users : (PendingRef(u, TRUE) > 0) ~> (PendingRef(u, TRUE) = 0)

C13_Witness ==
    \E u \in Users, v \in Users, i \in DOMAIN payouts, j \in DOMAIN payouts, k \in DOMAIN payouts :
        /\ u # v
        /\ i < j
        /\ payouts[i].privy_id = u /\ payouts[i].status = "failed"
        /\ payouts[j].privy_id = u /\ payouts[j].status = "sent"
        /\ payouts[k].privy_id = v /\ payouts[k].status = "sent"
        /\ PendingRef(u, TRUE) = 0
        /\ PendingRef(v, TRUE) = 0

\* no User has the wallet
UnknownWallet(wallet_address) ==
    \A u \in DOMAIN users : users[u].wallet_address # wallet_address

\* C14: a record_swap call whose wallet_address resolves to no User returns
\* None as the unknown-wallet no-op and leaves its frame (the trade is not
\* kept for later); neither its duplicate lookup nor its user lookup changes
\* a collection or accrues anything, and no Swap row carries a wallet that
\* no User has.
C14_UnknownWalletIsNoOp ==
    /\ [](\A row \in DOMAIN swaps :
             ~UnknownWallet(row.wallet_address) /\ row.user_privy_id \in DOMAIN users)
    /\ [][\A p \in Calls :
            /\ (calls[p].pc = "idle" /\ calls'[p].pc = "get_user")
                   => UNCHANGED <<db, accrued>>
            /\ (/\ calls[p].pc = "get_user"
                /\ UnknownWallet(calls[p].wallet_address)
                /\ calls'[p] # calls[p])
                   => /\ returned' = Return("record_swap", None, "Unknown wallet for swap")
                      /\ calls'[p] = IdleCall
                      /\ UNCHANGED <<db, accrued>>]_vars

C14_Witness ==
    /\ returned = Return("record_swap", None, "Unknown wallet for swap")
    /\ \A w \in Wallets : UnknownWallet(w)
    /\ swaps = EmptyBag
    /\ daily_volumes = << >>

\* the sum of a user's DailyVolume rows over the days D - 30 .. D
WindowSum(user_privy_id, D) ==
    LET days == {d \in (D - 30)..D : <<user_privy_id, d>> \in DOMAIN daily_volumes}
    IN  FnSum([d \in days |-> daily_volumes[<<user_privy_id, d>>]], days)

\* a call that ends with update_daily_volume has just returned
VolumeCallReturned ==
    \/ returned = Return("record_swap", "swap", None)
    \/ returned = Return("update_daily_volume", None, None)

\* C15: when a call of record_swap (or of update_daily_volume) made on day D
\* returns, no other call being in flight, the user's volume_30d is the sum
\* of the user's DailyVolume rows over the days D - 30 .. D: volumes 100, 200
\* and 300 on three consecutive days give 600 after the third, a row of day
\* D - 30 is counted and a row of day D - 31 or earlier is not.
C15_Volume30dIsWindowSum ==
    /\ [][\A u \in DOMAIN users :
            (UpdateDailyVolume_set(1) /\ calls[1].user = u)
                => users'[u].volume_30d = WindowSum(u, now)']_vars
    /\ []((/\ VolumeCallReturned
           /\ daily_volumes = (<<"u2", 0>> :> 100 * USD) @@ (<<"u2", 1>> :> 200 * USD)
                                  @@ (<<"u2", 2>> :> 300 * USD)
           /\ now = 2)
              => users["u2"].volume_30d = 600 * USD)
    /\ []((/\ VolumeCallReturned
           /\ DOMAIN daily_volumes = {<<"u2", 0>>, <<"u2", now>>}
           /\ now > 0)
              => users["u2"].volume_30d =
                     IF now <= 30
                     THEN daily_volumes[<<"u2", 0>>] + daily_volumes[<<"u2", now>>]
                     ELSE daily_volumes[<<"u2", now>>])

C15_Witness ==
    /\ VolumeCallReturned
    /\ now = 31
    /\ DOMAIN daily_volumes = {<<"u2", 0>>, <<"u2", 1>>, <<"u2", 31>>}
    /\ users["u2"].volume_30d = daily_volumes[<<"u2", 1>>] + daily_volumes[<<"u2", 31>>]

\* C16: however the awaits of concurrent record_swap calls for a user
\* interleave, once all the calls have returned the user's volume_30d is the
\* sum of the user's DailyVolume rows in the 30-day window.
C16_SnapshotConverges ==
    CallsQuiet =>
        \A u \in DOMAIN users : users[u].volume_30d = WindowSum(u, now)

\* call p writes its credit in this step
CreditWritten(p) == calls[p].pc = "credit_write" /\ calls'[p].pc # "credit_write"

\* C17 as stated: when a call writes its credit from a read of capped = false
\* that did not see the credit another trade of the same referrer has
\* written, and the two shares together exceed the cap, the credited
\* earnings end above the cap.
C17_RaceOvershootsCap ==
    [][\A p \in Calls, row \in DOMAIN swaps :
          (/\ CreditWritten(p)
           /\ row.tx_signature # calls[p].tx_signature
           /\ row.referrer_privy_id = calls[p].referrer_privy_id
           /\ accrued[row.tx_signature].credits = 1
           /\ ~calls[p].referral.capped
           /\ calls[p].referral.total_earned = 0
           /\ calls[p].amount + row.referrer_amount > REFERRAL_CAP)
              => \E referee \in DOMAIN referrals :
                     referrals'[referee].total_earned > referrals[referee].cap]_vars

\* C17 amended: trades by two different referees of a referrer write
\* different Referral rows; for trades of one referee both calls may read
\* capped = false and both write, each write setting total_earned to the
\* smaller of the total it read plus its share and the cap, so that
\* total_earned never ends above the cap.
C17_RaceNeverOvershoots ==
    /\ [](\A referee \in DOMAIN referrals :
             referrals[referee].total_earned <= referrals[referee].cap)
    /\ [][\A p \in Calls, referee \in DOMAIN referrals :
            CreditWritten(p) =>
                IF referee = calls[p].user
                THEN referrals'[referee].total_earned =
                         Min(calls[p].referral.total_earned + calls[p].amount,
                             referrals[referee].cap)
                ELSE referrals'[referee] = referrals[referee]]_vars

C17_Witness ==
    \E referee \in DOMAIN referrals :
        /\ \A sig \in Sigs : accrued[sig].credits = 1
        /\ \A row \in DOMAIN swaps : row.user_privy_id = referee
        /\ RefereeRowsSum(referee) = 400 * USD
        /\ referrals[referee].total_earned = 100 * USD
        /\ ~referrals[referee].capped

\* C18: when a record_swap call was cut off after its Swap row was inserted
\* and the same trade event has been delivered again (the second call has
\* returned, the one recorded signature being its signature), the ledger is
\* as an uninterrupted call leaves it: the daily volume was incremented once
\* for the signature, the user's last_trade_at is set, and a row with an
\* active referrer and a positive share was credited once.
C18_RedeliveryCompletesTheTrade ==
    (/\ Quiet
     /\ returned = Return("record_swap", None, "Duplicate swap")
     /\ Cardinality(DOMAIN swaps) = 1)
        => \A row \in DOMAIN swaps :
              /\ accrued[row.tx_signature].increments = 1
              /\ users[row.user_privy_id].last_trade_at # NoTime
              /\ users[row.user_privy_id].volume_30d = row.volume_usd
              /\ (row.referrer_privy_id # None /\ row.referrer_amount > 0)
                     => /\ accrued[row.tx_signature].credits = 1
                        /\ referrals[row.user_privy_id].total_earned = row.referrer_amount

\* C19: a Swap row inserted for a referee whose referral is capped has no
\* referrer, a referrer_amount of 0 and a platform_amount that includes the
\* referrer's share (80% of what is left after the partner's share), and the
\* total_earned of a capped referral does not change.
C19_CappedReferralHasNoReferrer ==
    [][/\ \A row \in DOMAIN swaps' :
             (/\ row \notin DOMAIN swaps
              /\ row.user_privy_id \in DOMAIN referrals
              /\ referrals[row.user_privy_id].capped)
                 => /\ row.referrer_privy_id = None
                    /\ row.referrer_amount = 0
                    /\ row.platform_amount * 100 = row.fee_amount_usd * 64
       /\ \A referee \in DOMAIN referrals :
             referrals[referee].capped
                 => referrals'[referee].total_earned = referrals[referee].total_earned]_vars

\* C20: there is one Referral row per referee (the row kept under a referee
\* is the row of that referee), and create_referral for a referee that has
\* a row, with the same or another referrer, returns None without raising
\* and leaves every collection as it was.
C20_OneReferrerPerReferee ==
    /\ [](\A referee \in DOMAIN referrals :
             referrals[referee].referee_privy_id = referee)
    /\ [][\A referrer \in ReferralReferrers, referee \in ReferralReferees :
            (referee \in DOMAIN referrals /\ create_referral(referrer, referee))
                => /\ returned'.ret = None
                   /\ returned'.op = "create_referral"
                   /\ UNCHANGED db]_vars
    /\ [][\A referee \in DOMAIN referrals :
            /\ referrals'[referee].referrer_privy_id = referrals[referee].referrer_privy_id
            /\ referrals'[referee].referee_privy_id = referee]_vars

C20_Witness ==
    /\ returned = Return("create_referral", None, "Failed to create referral")
    /\ \E referee \in DOMAIN referrals :
           /\ referrals[referee].referrer_privy_id = "u1"
           /\ referrals[referee].total_earned = 100 * USD

\* the user owning the code a sign-up carries, upper-cased, or None
CodeOwner(code) ==
    IF \E r \in DOMAIN users : users[r].referral_code = Upper(code)
    THEN CHOOSE r \in DOMAIN users : users[r].referral_code = Upper(code)
    ELSE None

\* C21: create_user resolves the referral code it was given to the user who
\* owns it (None when nobody does); the user it inserts has referred_by set
\* to that user and there is a Referral row (that user, new user) with
\* total_earned 0 and capped false; with a code nobody owns the user is
\* inserted with referred_by None and has no Referral row.
C21_CreateUserWithCode ==
    /\ [][\A u \in CreateUserIds :
            CreateUser_find_code(u)
                => signups'[u].referrer = CodeOwner(signups[u].code)]_vars
    /\ [][\A u \in CreateUserIds :
            (CreateUser_insert_user(u) /\ u \notin DOMAIN users)
                => /\ u \in DOMAIN users'
                   /\ returned'.ret = "user"
                   /\ users'[u].referred_by = signups[u].referrer
                   /\ IF signups[u].referrer # None
                      THEN /\ u \in DOMAIN referrals'
                           /\ referrals'[u] = referral_document(signups[u].referrer, u)
                      ELSE u \notin DOMAIN referrals']_vars

C21_Witness ==
    /\ returned = Return("get_or_create_user", "user", None)
    /\ DOMAIN users = {"u1", "u2", "u3"}
    /\ users["u2"].referred_by = "u1"
    /\ referrals["u2"] = referral_document("u1", "u2")
    /\ users["u3"].referred_by = None
    /\ DOMAIN referrals = {"u2"}

\* a direct call of update_referral_earnings is at its frame p
DirectCredit(p) == calls[p].op = "update_referral_earnings"

\* C22: a call of update_referral_earnings that finds no Referral row for
\* (referrer, referee), or finds the row capped, returns False and leaves
\* every collection as it was; a call that finds an uncapped row goes on to
\* write min(total_earned + amount, cap) and returns True, whether or not
\* the sum was above the cap.
C22_CreditReturnValue ==
    /\ [][\A p \in Calls :
            (DirectCredit(p) /\ Credit_read(p))
                => IF \/ calls[p].user \notin DOMAIN referrals
                      \/ referrals[calls[p].user].referrer_privy_id # calls[p].referrer_privy_id
                      \/ referrals[calls[p].user].capped
                   THEN /\ returned' = Return("update_referral_earnings", "False", None)
                        /\ UNCHANGED db
                   ELSE /\ calls'[p].pc = "credit_write"
                        /\ returned' = NoReturn]_vars
    /\ [][\A p \in Calls, referee \in Users :
            (DirectCredit(p) /\ Credit_write(p) /\ calls[p].user = referee)
                => /\ returned' = Return("update_referral_earnings", "True", None)
                   /\ referrals'[referee].total_earned =
                          Min(referrals[referee].total_earned + calls[p].amount,
                              REFERRAL_CAP)]_vars

C22_Witness ==
    /\ returned = Return("update_referral_earnings", "False", None)
    /\ "u2" \in DOMAIN referrals
    /\ referrals["u2"].capped
    /\ referrals["u2"].total_earned = REFERRAL_CAP
    /\ swaps = EmptyBag

\* C23: a call of record_swap ends by returning the swap or None, and a call
\* of update_referral_earnings by returning True or False: the duplicate
\* signature (also when the two deliveries overlap), the unknown wallet and
\* the capped referral do not end a call with an exception.
C23_NoOpsNeverRaise ==
    /\ returned.op = "record_swap" => returned.ret \in {None, "swap"}
    /\ returned.op = "update_referral_earnings" => returned.ret \in {"True", "False"}

\* C24: the value record_swap returns when it drops a call for an unknown
\* wallet is neither the value it returns for a duplicate signature nor the
\* value of a successful recording, and the value it returns for a duplicate
\* is neither that of an unknown wallet nor that of a success.
C24_NoOpsDistinguishable ==
    /\ returned.log = "Unknown wallet for swap"
           => returned.ret \notin {DuplicateResult.ret, "swap"}
    /\ returned.log = "Duplicate swap"
           => returned.ret \notin {UnknownWalletResult.ret, "swap"}

\* the sum of amount_usd over the sent Payout rows of a referrer
SentTo(referrer) ==
    LET rows == {i \in DOMAIN payouts :
                    payouts[i].privy_id = referrer /\ payouts[i].status = "sent"}
    IN  FnSum([i \in rows |-> payouts[i].amount_usd], rows)

\* C25: in every state the pending_payout that get_referral_stats shows a
\* referrer is not negative and is at most the sum of referrer_amount over
\* the referrer's Swap rows minus the sum of the referrer's sent Payouts,
\* also after a failed payout and after a payout job that was cut off and
\* run again.
C25_StatsPendingWithinUnpaid ==
    \A u \in DOMAIN users :
        /\ get_referral_stats(u).pending_payout >= 0
        /\ get_referral_stats(u).pending_payout <= SharesOf(u) - SentTo(u)

\* C26: for every volume, calculate_fee_split without a referrer (whatever
\* referrer_capped is) returns a referrer_amount of 0 and the platform_amount
\* that calculate_fee_split returns for a capped referrer, whose
\* referrer_amount is 0 too.
C26_NoReferrerEqualsCapped ==
    (fee_call.called /\ ~fee_call.has_referrer) =>
        LET capped == calculate_fee_split(fee_call.volume_usd, TRUE, TRUE)
        IN  /\ fee_call.result.platform_amount = capped.platform_amount
            /\ fee_call.result.referrer_amount = 0
            /\ capped.referrer_amount = 0

C26_Witness ==
    /\ fee_call.called
    /\ fee_call.volume_usd = 1000
    /\ ~fee_call.has_referrer /\ ~fee_call.referrer_capped
    /\ fee_call.result.platform_amount = 320
    /\ calculate_fee_split(1000, TRUE, TRUE).platform_amount = 320

\* C27: for every volume the three shares add up to the same total with and
\* without an active referrer; without one the platform_amount is the
\* platform_amount plus the referrer_amount of the split with one; and the
\* total is gross_fee * (JUPITER_SPLIT + (1 - JUPITER_SPLIT) *
\* (PLATFORM_SPLIT + REFERRER_SPLIT)).
C27_TotalIndependentOfReferrer ==
    fee_call.called =>
        LET active == calculate_fee_split(fee_call.volume_usd, TRUE, FALSE)
            r == fee_call.result
        IN  /\ FeeTotal(r) = FeeTotal(active)
            /\ ~FeeActive => r.platform_amount =
                                 active.platform_amount + active.referrer_amount
            /\ FeeTotal(r) * Percent * Percent =
                   r.gross_fee * (JUPITER_SPLIT * Percent
                                  + (Percent - JUPITER_SPLIT)
                                        * (PLATFORM_SPLIT + REFERRER_SPLIT))

C27_Witness ==
    /\ fee_call.called
    /\ fee_call.volume_usd = 2000
    /\ ~FeeActive
    /\ fee_call.result.platform_amount = 640
    /\ calculate_fee_split(2000, TRUE, FALSE).platform_amount = 440
    /\ calculate_fee_split(2000, TRUE, FALSE).referrer_amount = 200
    /\ FeeTotal(fee_call.result) = 840

\* str.lower() on the wallet addresses of the trades
Lower(wallet_address) == IF wallet_address = "W2" THEN "w2" ELSE wallet_address

\* C28: the wallet address of every user is stored lower-cased, and
\* record_swap resolves a wallet address to the user whose address it is up
\* to letter case.
C28_WalletCaseNormalized ==
    /\ [](\A u \in DOMAIN users :
             users[u].wallet_address = Lower(users[u].wallet_address))
    /\ [][\A p \in Calls, u \in DOMAIN users :
            (/\ RecordSwap_get_user(p)
             /\ Lower(calls[p].wallet_address) = Lower(users[u].wallet_address))
                => /\ calls'[p].user = u
                   /\ returned' = NoReturn]_vars

Young(mint) ==
    /\ mint \in DOMAIN price_cache
    /\ clock - price_cache[mint].time < 60

\* the results, the cache hits and the quotes of the call after a step: those
\* it returned, or those of its frame while it goes on
ResultsNext == IF price_call'.pc = "idle" THEN price_ret'.results ELSE price_call'.results
HitsNext == IF price_call'.pc = "idle" THEN price_ret'.hits ELSE price_call'.hits
QuotedNext == IF price_call'.pc = "idle" THEN price_ret'.quoted ELSE price_call'.quoted

\* the price service answers a mint from the cache exactly when the entry is
\* younger than CACHE_TTL_SECONDS, and then without a request
CachedOnlyWhileYoung ==
    /\ [][\A m \in Mints :
            GetTokenPrice_check(m)
                => IF Young(m)
                   THEN /\ price_ret'.value = price_cache[m].price
                        /\ price_ret'.requests = 0
                        /\ price_call'.pc = "idle"
                   ELSE /\ price_call'.pc = "fetch"
                        /\ price_ret' = NoPriceReturn]_vars
    /\ [][\A ms \in SUBSET PriceMints, m \in Mints :
            (GetMultiple_check(ms) /\ m \in ms)
                => IF Young(m)
                   THEN /\ m \in HitsNext
                        /\ ResultsNext[m] = price_cache[m].price
                        /\ (\A n \in ms \cap Mints : Young(n))
                               => price_call'.pc = "idle" /\ price_ret'.requests = 0
                   ELSE /\ m \notin DOMAIN ResultsNext
                        /\ price_call'.pc = "multi_fetch"
                        /\ m \in price_call'.to_fetch]_vars
    /\ [][\A m \in Mints :
            (Fallback_check(m) /\ ~Young(m))
                => /\ price_call'.pc = "fallback_fetch"
                   /\ m \notin HitsNext]_vars

\* what a call returns for a mint it did not answer from the cache is the
\* quote the boundary gave it in this call, or nothing; no price is zero
FetchedOrNothing ==
    /\ price_ret.op = "get_token_price" =>
           /\ price_ret.value # 0
           /\ (price_ret.value # NoPrice /\ price_ret.hits = {})
                  => /\ price_ret.requests = 1
                     /\ \E m \in DOMAIN price_ret.quoted :
                            price_ret.value = price_ret.quoted[m]
           /\ (price_ret.requests = 1 /\ price_ret.quoted = << >>)
                  => price_ret.value = NoPrice
    /\ price_ret.op = "get_multiple_token_prices" =>
           \A m \in DOMAIN price_ret.results :
               /\ price_ret.results[m] # 0
               /\ price_ret.results[m] # NoPrice
               /\ m \notin price_ret.hits
                      => /\ m \in DOMAIN price_ret.quoted
                         /\ price_ret.results[m] = price_ret.quoted[m]
                         /\ price_ret.requests >= 1

\* the cache is written only with a quote of the boundary, stamped with the
\* time the call read; a request that fails writes nothing
CacheHoldsQuotes ==
    /\ [][\A m \in Mints :
            (/\ m \in DOMAIN price_cache'
             /\ m \in DOMAIN price_cache => price_cache'[m] # price_cache[m])
                => /\ price_cache'[m] = [price |-> market[m], time |-> price_call.now]
                   /\ m \in DOMAIN QuotedNext]_vars
    /\ [][\A r \in Responses \ {"ok"} :
            (GetTokenPrice_fetch(r) \/ Fallback_fetch(r))
                => UNCHANGED price_cache]_vars
    /\ [][\A r \in {"novalue", "error"} :
            GetMultiple_fetch(r, {}) => UNCHANGED price_cache]_vars

OtherVariant ==
    IF ix.builder = "claim" THEN create_claim_v2_instruction(ix.args)
    ELSE create_claim_instruction(ix.args)

\* C31: the instruction built by create_claim_instruction or by
\* create_claim_v2_instruction is addressed to the referral program, has
\* exactly 12 accounts, its account 0 is the payer supplied, a signer and
\* writable, and its data starts with the 8-byte discriminator of its
\* variant; the other builder makes of the same arguments an instruction
\* that differs in the discriminator and in nothing else.
C31_ClaimInstructionShape ==
    ix.builder # None =>
        LET i == ix.instruction
            o == OtherVariant
        IN  /\ i.program_id = REFERRAL_PROGRAM_ID
            /\ Len(i.accounts) = 12
            /\ i.accounts[1].pubkey = ix.args.payer
            /\ i.accounts[1].is_signer
            /\ i.accounts[1].is_writable
            /\ Len(i.data) >= 8
            /\ SubSeq(i.data, 1, 8) =
                    IF ix.builder = "claim" THEN Sha256Prefix8("global:claim")
                    ELSE Sha256Prefix8("global:claim_v2")
            /\ o.program_id = i.program_id
            /\ o.accounts = i.accounts
            /\ SubSeq(o.data, 9, Len(o.data)) = SubSeq(i.data, 9, Len(i.data))
            /\ SubSeq(o.data, 1, 8) # SubSeq(i.data, 1, 8)

\* a second-variant instruction was built for payer k2 and the newer
\* token program
C31_Witness ==
    /\ ix.builder = "claim_v2"
    /\ ix.args.payer = "k2"
    /\ ix.args.token_program = TOKEN_2022_PROGRAM_ID
    /\ Len(ix.instruction.accounts) = 12
    /\ ix.instruction.accounts[1].pubkey = "k2"

\* ------------------------------------------------------------------------
\* C32
\* ------------------------------------------------------------------------
\* C32: the discriminators of claim and claim_v2 are 8 bytes each, are the
\* first 8 bytes of the SHA-256 digest of "global:" followed by the
\* instruction name, differ from each other, and are the same whatever the
\* arguments of the instruction they head.
C32_DiscriminatorsFixed ==
    /\ Len(CLAIM_DISCRIMINATOR) = 8
    /\ Len(CLAIM_V2_DISCRIMINATOR) = 8
    /\ CLAIM_DISCRIMINATOR = Sha256Prefix8("global:claim")
    /\ CLAIM_V2_DISCRIMINATOR = Sha256Prefix8("global:claim_v2")
    /\ CLAIM_DISCRIMINATOR # CLAIM_V2_DISCRIMINATOR
    /\ \A b \in DOMAIN CLAIM_DISCRIMINATOR :
            CLAIM_DISCRIMINATOR[b] \in 0..255 /\ CLAIM_V2_DISCRIMINATOR[b] \in 0..255
    /\ ix.builder = "claim" =>
            SubSeq(ix.instruction.data, 1, 8) = <<62, 198, 214, 193, 213, 159, 108, 210>>
    /\ ix.builder = "claim_v2" =>
            SubSeq(ix.instruction.data, 1, 8) = <<229, 87, 46, 162, 21, 157, 231, 114>>

\* a first-variant instruction was built for payer k1 and carries the
\* discriminator of claim
C32_Witness ==
    /\ ix.builder = "claim"
    /\ ix.args.payer = "k1"
    /\ ix.args.mint = "k2"
    /\ SubSeq(ix.instruction.data, 1, 8) = CLAIM_DISCRIMINATOR

\* ------------------------------------------------------------------------
\* C33
\* ------------------------------------------------------------------------
\* the job function whose frame is `frame` has returned
JobDone(frame) ==
    frame.pc = "idle" /\ (frame.status # None \/ frame.raised # NoException)

\* a job that has ended handed a result to the job runner: no exception
\* left it, its status is success when its run raised nothing, and error
\* with the message of the exception when its run raised one
EndedWithResult(frame) ==
    JobDone(frame) =>
        /\ ~frame.propagated
        /\ frame.status \in {"success", "error"}
        /\ frame.status = "success" <=> frame.raised = NoException
        /\ frame.status = "error" =>
                frame.raised # NoException /\ frame.error = frame.raised.message

C34_NoCreditLost ==
    CallsQuiet =>
        \A referee \in DOMAIN referrals :
            /\ referrals[referee].total_earned =
                   Min(referrals[referee].cap, RefereeRowsSum(referee))
            /\ referrals[referee].capped <=>
                   RefereeRowsSum(referee) >= referrals[referee].cap

\* ------------------------------------------------------------------------
\* C35
\* ------------------------------------------------------------------------
\* C35: when two payout jobs run at overlapping times, whatever the order
\* of their steps, the amount transferred to a referrer never exceeds the
\* sum of referrer_amount over the Swap rows naming that referrer: no
\* pending amount is transferred twice.
C35_OverlapPaysOnce ==
    \A referrer \in DOMAIN users :
        transferred[referrer] <= SharesOf(referrer)

\* ------------------------------------------------------------------------
\* C36
\* ------------------------------------------------------------------------
\* C36: in every reachable state, a user has referred_by = R exactly when
\* the Referral row of that user as referee exists and names R as referrer,
\* also after sign-up calls for one identity have run at overlapping times
\* with different referral codes and the user insert of one of them failed
\* after its referral insert.
C36_ReferredByMatchesReferral ==
    \A u \in DOMAIN users, R \in Users :
        users[u].referred_by = R <=>
            (u \in DOMAIN referrals /\ referrals[u].referrer_privy_id = R)

\* ------------------------------------------------------------------------
\* C37
\* ------------------------------------------------------------------------
\* C37: in every reachable state and for every Referral row, capped is true
\* exactly when total_earned equals the cap, and capped_at is set exactly
\* when capped is true, whatever record_swap calls have run and however
\* their steps were interleaved.
C37_CappedMatchesTotal ==
    \A referee \in DOMAIN referrals :
        LET r == referrals[referee]
        IN  /\ r.capped <=> r.total_earned = r.cap
            /\ r.capped_at # NoTime <=> r.capped

\* ------------------------------------------------------------------------
\* C38
\* ------------------------------------------------------------------------
\* volume_usd of the DailyVolume row of a user and a day, 0 without a row
RowVolume(user_privy_id, day) ==
    IF <<user_privy_id, day>> \in DOMAIN daily_volumes
    THEN daily_volumes[<<user_privy_id, day>>] ELSE 0

\* the days a Swap row is stamped with or a DailyVolume row is kept for
DaysSeen ==
    {row.created_at : row \in DOMAIN swaps} \cup {key[2] : key \in DOMAIN daily_volumes}

\* the sum of volume_usd over the Swap rows of a user stamped with a day
StampedOn(user_privy_id, day) ==
    LET rows == {row \in DOMAIN swaps :
                    row.user_privy_id = user_privy_id /\ row.created_at = day}
    IN  FnSum([row \in rows |-> row.volume_usd * swaps[row]], rows)

\* the sum of volume_usd over the Swap rows of a user whose upsert of the
\* daily volume ran on a day
UpsertedOn(user_privy_id, day) ==
    LET rows == {row \in DOMAIN swaps :
                    /\ row.user_privy_id = user_privy_id
                    /\ accrued[row.tx_signature].day = day}
    IN  FnSum([row \in rows |-> row.volume_usd * swaps[row]], rows)

\* C38 as stated: once the record_swap calls in flight have completed, the
\* DailyVolume row of every user and day holds the sum of volume_usd over
\* the Swap rows of that user stamped with that day.
C38_DailyRowIsDaySum ==
    CallsQuiet =>
        \A u \in DOMAIN users, day \in DaysSeen :
            RowVolume(u, day) = StampedOn(u, day)

\* C38 amended: once the record_swap calls in flight have completed, the
\* DailyVolume row of every user and day holds the sum of volume_usd over
\* the Swap rows of that user whose upsert ran on that day, for every
\* interleaving of the calls with each other and with the clock; it is the
\* sum over the rows stamped with that day when no call passed midnight
\* between stamping its row and its upsert.
C38_IncrementsNeverLost ==
    CallsQuiet =>
        \A u \in DOMAIN users, day \in DaysSeen :
            /\ RowVolume(u, day) = UpsertedOn(u, day)
            /\ (\A row \in DOMAIN swaps :
                    accrued[row.tx_signature].day = row.created_at)
                  => RowVolume(u, day) = StampedOn(u, day)

\* both signatures are recorded for u2 on day 0, one of the calls made its
\* upsert after midnight, and each day's row holds the volume upserted on it
C38_Witness ==
    /\ CallsQuiet
    /\ \A sig \in Sigs : SwapCount(sig) = 1
    /\ \E row \in DOMAIN swaps :
          /\ row.created_at = 0 /\ accrued[row.tx_signature].day = 1
          /\ row.volume_usd = 3000 * USD
    /\ \E row \in DOMAIN swaps :
          /\ row.created_at = 0 /\ accrued[row.tx_signature].day = 0
          /\ row.volume_usd = 1000 * USD
    /\ RowVolume("u2", 0) = 1000 * USD
    /\ RowVolume("u2", 1) = 3000 * USD

\* ------------------------------------------------------------------------
\* C39
\* ------------------------------------------------------------------------
ProfileFields == {"wallet_address", "wallet_id", "user_id"}

\* a step keeps every existing user, with its referred_by and referral_code
ReferralFieldsKept ==
    \A u \in DOMAIN users :
        /\ u \in DOMAIN users'
        /\ users'[u].referred_by = users[u].referred_by
        /\ users'[u].referral_code = users[u].referral_code

\* a step changes wallet_address, wallet_id or user_id of an existing user
\* only from a missing value
OnlyMissingFilled ==
    \A u \in DOMAIN users, field \in ProfileFields :
        users'[u][field] # users[u][field] => Missing(users[u][field])

\* a step of a call that found its user (the lookup that finds the user, or
\* the update that follows it) leaves the Referral rows alone
FoundUserStep(call) ==
    \/ /\ ~InFlight(signups[call])
       /\ \/ signups'[call].pc = "update_user"
          \/ signups' = signups /\ returned' = Return("get_or_create_user", "user", None)
    \/ signups[call].pc = "update_user" /\ ~InFlight(signups'[call])

\* C39: once a user exists no step changes its referred_by or referral_code;
\* a get_or_create_user call that finds its user creates no Referral row, and
\* it changes wallet_address, wallet_id and user_id only where the stored
\* value is missing, never overwriting a non-empty stored value.
C39_ExistingUserKept ==
    [][/\ ReferralFieldsKept
       /\ OnlyMissingFilled
       /\ (\E call \in Users : FoundUserStep(call)) => referrals' = referrals]_vars

====
